---- MODULE Spec2Model ----
(***************************************************************************)
(* Verification model of the congnot workflow engine.                      *)
(*                                                                         *)
(* Part 1: core/execution_queue.py, class ExecutionQueue: the task map,    *)
(*         the ready heap, the forward dependency graph, the asyncio       *)
(*         workers and the start/stop life cycle.                          *)
(* Part 2: core/graph_executor.py: TopologicalSorter, GraphExecutor        *)
(*         .execute_graph with its rollback cascade, and                   *)
(*         core/modules/task_queue: TaskQueueManager.add_workflow.         *)
(* Part 3: core/module/module_manager.py, class ModuleManager: the module  *)
(*         records and the load / activate / deactivate coroutines.        *)
(* Part 4: core/node_registry.py and core/module/plugin_manager.py.        *)
(* Part 5: core/graph_parser.py.                                           *)
(* Part 6: core/model_cache_manager.py, class ModelCacheManager, called    *)
(*         from several threads.                                           *)
(* Part 7: core/datastore: DataStore over MemoryStorage and                *)
(*         LRUCacheStrategy.                                               *)
(*                                                                         *)
(* asyncio is cooperative: a coroutine runs without interruption up to its *)
(* next await that really suspends.  Every action below is one such run.   *)
(* The awaits of execute_task (the three callbacks and the node function)  *)
(* are awaits of caller-supplied coroutines, so each is a point where      *)
(* another coroutine may run and where cancel() delivers CancelledError.   *)
(***************************************************************************)
EXTENDS Naturals, Sequences, FiniteSets

\* ---------------------------------------------------------------- bounds
NumTasks == 4
MaxWorkers == 2
MaxStops == 1
MaxReadds == 1
NumNodes == 3
MaxEdges == 3
NumModules == 2
MaxCalls == 2
NumThreads == 2
NumKeys == 3
MaxCacheSize == 2

TaskIds == 1..NumTasks
WorkerIds == 1..MaxWorkers
ModuleIds == 1..NumModules
CallIds == 1..MaxCalls
ThreadIds == 1..NumThreads
Keys == 1..NumKeys

\* ------------------------------------------------- ExecutionQueue: state
VARIABLES
    plan,                \* the dependency list each Task is built with
    objects,             \* the Task objects built so far: [task_id, dependencies, status]
    tasks,               \* self.tasks: task id -> Task object
    task_order,          \* insertion order of the self.tasks dict
    priority_queue,      \* self.priority_queue: entries <<priority, Task object>>
    dependency_graph,    \* self.dependency_graph: task id -> list of dependents
    running_tasks,       \* self.running_tasks
    completed_tasks,     \* self.completed_tasks
    failed_tasks,        \* self.failed_tasks
    is_running,          \* self.is_running
    all_tasks_completed, \* self.all_tasks_completed (asyncio.Event)
    workers,             \* self.workers: worker -> [pc, task]
    started,             \* history: on_task_start emissions per task id
    completed_cb,        \* history: on_task_complete emissions per task id
    failed_cb,           \* history: on_task_fail emissions per task id
    stops,               \* history: number of stop() calls
    readds               \* history: add_task calls for an id already in the map

qvars == <<plan, objects, tasks, task_order, priority_queue, dependency_graph,
           running_tasks, completed_tasks, failed_tasks, is_running,
           all_tasks_completed, workers, started, completed_cb, failed_cb,
           stops, readds>>

\* ------------------------------- GraphExecutor / TaskQueueManager: state
VARIABLES
    graph,              \* the Graph: [nodes, edges], both in dict order
    conditions,         \* the inputs of the nodes of type "condition"
    topology_sorter,    \* "kahn" or "dfs" (GraphExecutor.__init__)
    node_functions,     \* node types with a registered node function
    rollback_functions, \* node types with a registered rollback function
    api,                \* the submission in progress, "none" before it
    gpc,                \* where execute_graph / add_workflow stands
    topological_order,  \* execute_graph: topological_order
    pos,                \* index of the next node of topological_order
    results,            \* node ids that have an entry in results
    executed_nodes,     \* execute_graph: executed_nodes
    rb_pos,             \* nodes of the rollback order still to visit
    error,              \* the exception being handled / raised to the caller
    tqm_tasks,          \* TaskQueueManager.tasks: the workflow records
    node_started,       \* history: on_node_start calls
    node_completed,     \* history: on_node_complete calls
    executor_calls,     \* history: node function calls
    rolled_back,        \* history: rollback function calls
    rollback_failed     \* history: rollback calls that raised (logged)

gvars == <<graph, conditions, topology_sorter, node_functions,
           rollback_functions, api,
           gpc, topological_order, pos, results, executed_nodes, rb_pos,
           error, tqm_tasks, node_started, node_completed, executor_calls,
           rolled_back, rollback_failed>>

\* --------------------------------------------------- ModuleManager: state
VARIABLES
    metadata,          \* module id -> ModuleMetadata of its Module (dependencies)
    _module_loaders,   \* the ids a loader is registered for
    instances,         \* the ModuleInstance objects ever created
    _modules,          \* module id -> index in instances of its record
    coroutines,        \* call -> its stack of suspended frames, top last
    loader_calls,      \* instance -> number of invocations of its loader
    log                \* what the last run did: calls, returns, state changes

mvars == <<metadata, _module_loaders, instances, _modules, coroutines,
           loader_calls, log>>

\* ------------------------------------ NodeRegistry / PluginManager: state
VARIABLES
    _nodes,                 \* NodeRegistry._nodes: the registered type names
    _custom_repositories,   \* PluginManager._custom_repositories, in list order
    _disabled_repositories, \* PluginManager._disabled_repositories
    _index_cache,           \* PluginManager._index_cache: git url -> node names
    _reverse_index,         \* PluginManager._reverse_index: node name -> git url
    _index_last_updated,    \* PluginManager._index_last_updated
    clock,                  \* time.time()
    _loaded_plugins,        \* PluginManager._loaded_plugins: plugin id -> path
    plugin_modules,         \* self._modules at the plugin ids: id -> state
    plugin_loaders,         \* self._module_loaders at the plugin ids
    disk,                   \* the plugin directories on disk: <<directory, name>>
    reply                   \* the last call of the part: operation, arguments, result

pvars == <<_nodes, _custom_repositories, _disabled_repositories, _index_cache,
           _reverse_index, _index_last_updated, clock, _loaded_plugins,
           plugin_modules, plugin_loaders, disk, reply>>

\* ------------------------------------ ModelCacheManager / DataStore: state
VARIABLES
    _cache,          \* ModelCacheManager._cache: the model keys cached
    _access_order,   \* ModelCacheManager._access_order, oldest first
    _lock,           \* ModelCacheManager._lock: 0 when free, else the thread that took it
    threads,         \* thread -> the frames of its call into the manager
    storage,         \* MemoryStorage.storage: key -> value
    lru_cache,       \* LRUCacheStrategy.cache: <<key, value>> in OrderedDict order
    cache_size       \* DataStoreConfig.cache_size

cvars == <<_cache, _access_order, _lock, threads>>
dvars == <<storage, lru_cache, cache_size>>
kvars == <<_cache, _access_order, _lock, threads, storage, lru_cache,
           cache_size>>

\* ModelCacheManager() before any call
CIdle ==
    /\ _cache = {}
    /\ _access_order = <<>>
    /\ _lock = 0
    /\ threads = [t \in ThreadIds |-> <<>>]

\* DataStore(DataStoreConfig(cache_size = 1)) before any call
DIdle ==
    /\ storage = <<>>
    /\ lru_cache = <<>>
    /\ cache_size = 1

KIdle == CIdle /\ DIdle

\* TaskStatus
PENDING == "pending"
RUNNING == "running"
COMPLETED == "completed"
FAILED == "failed"

\* -------------------------------------------------------------- helpers
RECURSIVE SeqToSet(_)
SeqToSet(s) == IF s = <<>> THEN {} ELSE {Head(s)} \cup SeqToSet(Tail(s))

\* Task.dependencies lists used as inputs: a chain, a fan-out/fan-in
\* (the diamond from four tasks on), and the shape of
\* test_execution_queue (two sources, a join, a sink).
ChainDeps == [t \in TaskIds |-> IF t = 1 THEN <<>> ELSE <<t - 1>>]

RECURSIVE Interval(_, _)
Interval(a, b) == IF a > b THEN <<>> ELSE <<a>> \o Interval(a + 1, b)

DiamondDeps == [t \in TaskIds |->
                  IF t = 1 THEN <<>>
                  ELSE IF t < NumTasks THEN <<1>>
                  ELSE Interval(2, NumTasks - 1)]

JoinDeps == [t \in TaskIds |->
               IF t <= 2 THEN <<>>
               ELSE IF t = 3 THEN <<1, 2>>
               ELSE <<t - 1>>]

Plans == {ChainDeps, DiamondDeps, JoinDeps}

\* heapq.heappush of (priority, self.priority_counter, task) followed by
\* priority_counter += 1.  The counter grows with every push, so the heap
\* order is priority first and insertion order among equal priorities: the
\* sequence is kept in exactly that order and heappop takes its head.
RECURSIVE HeapInsert(_, _)
HeapInsert(h, e) ==
    IF h = <<>> THEN <<e>>
    ELSE IF Head(h)[1] <= e[1] THEN <<Head(h)>> \o HeapInsert(Tail(h), e)
    ELSE <<e>> \o h

\* all(dep in self.tasks and self.tasks[dep].status == COMPLETED
\*     for dep in task.dependencies)
DepsCompleted(ts, objs, deps) ==
    \A i \in 1..Len(deps) :
        deps[i] \in DOMAIN ts /\ objs[ts[deps[i]]].status = COMPLETED

\* _all_tasks_processed
AllTasksProcessed(ts, objs) ==
    Cardinality({t \in DOMAIN ts : objs[ts[t]].status \in {COMPLETED, FAILED}})
        = Cardinality(DOMAIN ts)

\* the loop of add_task that builds the forward dependency graph
RECURSIVE BuildDependencyGraph(_, _, _)
BuildDependencyGraph(dg, deps, t) ==
    IF deps = <<>> THEN dg
    ELSE LET d == Head(deps)
             cur == IF d \in DOMAIN dg THEN dg[d] ELSE <<>>
             dg1 == [x \in (DOMAIN dg) \cup {d} |->
                        IF x = d THEN Append(cur, t) ELSE dg[x]]
         IN BuildDependencyGraph(dg1, Tail(deps), t)

\* ------------------------------------------------ ExecutionQueue: actions
\* ExecutionQueue.__init__
QNew ==
    /\ objects = <<>>
    /\ tasks = <<>>
    /\ task_order = <<>>
    /\ priority_queue = <<>>
    /\ dependency_graph = <<>>
    /\ running_tasks = 0
    /\ completed_tasks = 0
    /\ failed_tasks = 0
    /\ is_running = FALSE
    /\ all_tasks_completed = FALSE
    /\ workers = <<>>
    /\ started = [t \in TaskIds |-> 0]
    /\ completed_cb = [t \in TaskIds |-> 0]
    /\ failed_cb = [t \in TaskIds |-> 0]
    /\ stops = 0
    /\ readds = 0

QInit == plan \in Plans /\ QNew

\* Task.__init__(priority: int = 50)
DefaultPriority == 50

\* the priority the caller builds the Task (or the node) with: the default
\* for the odd ids, a more urgent one for the even ids
TaskPriority(t) == IF t % 2 = 1 THEN DefaultPriority ELSE 10

\* Task.__init__: a new Task is PENDING
NewTask(t, deps) ==
    [task_id |-> t, dependencies |-> deps, priority |-> TaskPriority(t),
     status |-> PENDING]

\* self.tasks[task.task_id] = task: a dict assignment, which replaces the
\* Task stored under an id already present
PutTask(ts, t, o) == [x \in (DOMAIN ts) \cup {t} |-> IF x = t THEN o ELSE ts[x]]

SetStatus(objs, o, s) == [objs EXCEPT ![o].status = s]

\* add_task(task, priority) on the queue q = [objects, tasks, task_order,
\* dependency_graph, priority_queue], for the Task object o; the readiness
\* test reads the map with the task in it
AddTask(q, o, priority) ==
    LET t == q.objects[o].task_id
        deps == q.objects[o].dependencies
        ts == PutTask(q.tasks, t, o)
    IN [objects |-> q.objects,
        tasks |-> ts,
        task_order |-> IF t \in DOMAIN q.tasks THEN q.task_order
                       ELSE Append(q.task_order, t),
        dependency_graph |-> BuildDependencyGraph(q.dependency_graph, deps, t),
        priority_queue |->
            IF deps = <<>> \/ DepsCompleted(ts, q.objects, deps)
            THEN HeapInsert(q.priority_queue, <<priority, o>>)
            ELSE q.priority_queue]

\* add_task of a Task the caller has just built
AddNewTask(q, t, deps, priority) ==
    AddTask([q EXCEPT !.objects = Append(@, NewTask(t, deps))],
            Len(q.objects) + 1, priority)

Queue == [objects |-> objects, tasks |-> tasks, task_order |-> task_order,
          dependency_graph |-> dependency_graph,
          priority_queue |-> priority_queue]

\* add_task(task, priority) for a Task with id t.  The caller passes a
\* Task it has just built (o = Len(objects) + 1) or a Task object it has
\* passed before (o <= Len(objects)); nothing in add_task looks whether
\* the id is already in the map.
add_task(t, priority) ==
    \E o \in 1..(Len(objects) + 1) :
        /\ \/ o = Len(objects) + 1
           \/ o \in DOMAIN objects /\ objects[o].task_id = t
        /\ IF t \in DOMAIN tasks
           THEN readds < MaxReadds /\ readds' = readds + 1
           ELSE readds' = readds
        /\ LET q == IF o \in DOMAIN objects
                    THEN AddTask(Queue, o, priority)
                    ELSE AddNewTask(Queue, t, plan[t], priority)
           IN /\ objects' = q.objects
              /\ tasks' = q.tasks
              /\ task_order' = q.task_order
              /\ dependency_graph' = q.dependency_graph
              /\ priority_queue' = q.priority_queue
        /\ UNCHANGED <<plan, running_tasks, completed_tasks, failed_tasks,
                       is_running, all_tasks_completed, workers, started,
                       completed_cb, failed_cb, stops>>
        /\ UNCHANGED gvars
        /\ UNCHANGED <<mvars, pvars, kvars>>

\* the loop of start() over self.tasks.values(): every task without
\* dependencies is set to PENDING and pushed with priority 0
RECURSIVE StartLoop(_, _, _, _)
StartLoop(order, ts, objs, h) ==
    IF order = <<>> THEN [objects |-> objs, heap |-> h]
    ELSE LET o == ts[Head(order)]
         IN IF objs[o].dependencies = <<>>
            THEN StartLoop(Tail(order), ts, SetStatus(objs, o, PENDING),
                           HeapInsert(h, <<0, o>>))
            ELSE StartLoop(Tail(order), ts, objs, h)

\* start(): returns at once when the queue is already running
start ==
    /\ ~is_running
    /\ is_running' = TRUE
    /\ all_tasks_completed' = FALSE
    /\ LET r == StartLoop(task_order, tasks, objects, priority_queue)
       IN /\ objects' = r.objects
          /\ priority_queue' = r.heap
    /\ workers' = [w \in WorkerIds |-> [pc |-> "idle", task |-> 0]]
    /\ UNCHANGED <<plan, tasks, task_order, dependency_graph, running_tasks,
                   completed_tasks, failed_tasks, started, completed_cb,
                   failed_cb, stops, readds>>
    /\ UNCHANGED gvars
    /\ UNCHANGED <<mvars, pvars, kvars>>

\* A worker suspended inside execute_task (at one of its awaits)
InFlight(w) == workers[w].pc \in {"execute", "on_task_complete", "on_task_fail"}

\* stop(): is_running = False, worker.cancel() for every worker, then
\* gather.  CancelledError is a BaseException: a worker suspended inside
\* execute_task skips `except Exception`, runs the finally block
\* (running_tasks -= 1, the all-processed test) and leaves the loop.
stop ==
    /\ stops < MaxStops
    /\ stops' = stops + 1
    /\ is_running' = FALSE
    /\ LET cancelled == {w \in DOMAIN workers : InFlight(w)}
       IN /\ running_tasks' = running_tasks - Cardinality(cancelled)
          /\ all_tasks_completed' =
                (all_tasks_completed
                   \/ (cancelled # {} /\ AllTasksProcessed(tasks, objects)))
    /\ workers' = <<>>
    /\ UNCHANGED <<plan, objects, tasks, task_order, priority_queue,
                   dependency_graph, completed_tasks, failed_tasks, started,
                   completed_cb, failed_cb, readds>>
    /\ UNCHANGED gvars
    /\ UNCHANGED <<mvars, pvars, kvars>>

\* get_statistics()
get_statistics ==
    [total |-> Cardinality(DOMAIN tasks),
     running |-> running_tasks,
     completed |-> completed_tasks,
     failed |-> failed_tasks,
     pending |-> Cardinality(DOMAIN tasks) - completed_tasks - failed_tasks - running_tasks]

\* the variables of the graph part other than TaskQueueManager.tasks
xvars == <<graph, conditions, topology_sorter, node_functions,
           rollback_functions, api,
           gpc, topological_order, pos, results, executed_nodes, rb_pos,
           error, node_started, node_completed, executor_calls, rolled_back,
           rollback_failed>>

\* TaskQueueManager: the first workflow record whose node_tasks hold
\* task_id (`for ... in self.tasks.items(): if task_id in ...: ... break`),
\* 0 when there is none
RECURSIVE WorkflowOf(_, _, _)
WorkflowOf(recs, task_id, i) ==
    IF i > Len(recs) THEN 0
    ELSE IF task_id \in recs[i].node_tasks THEN i
    ELSE WorkflowOf(recs, task_id, i + 1)

\* TaskQueueManager._on_task_start
_on_task_start(recs, task_id) ==
    LET i == WorkflowOf(recs, task_id, 1)
    IN IF i = 0 THEN recs ELSE [recs EXCEPT ![i].status = "running"]

\* TaskQueueManager._on_task_complete, on the queue's map ts of Task
\* objects objs
_on_task_complete(recs, task_id, ts, objs) ==
    LET i == WorkflowOf(recs, task_id, 1)
    IN IF i = 0 THEN recs
       ELSE LET all_completed ==
                    \A n \in recs[i].node_tasks :
                        objs[ts[n]].status \in {COMPLETED, FAILED}
                any_failed ==
                    \E n \in recs[i].node_tasks : objs[ts[n]].status = FAILED
            IN IF all_completed
                 THEN [recs EXCEPT ![i].status =
                          IF any_failed THEN "failed" ELSE "completed"]
                 ELSE recs

\* TaskQueueManager._on_task_fail; str(error) is written as the id of the
\* task that raised it
_on_task_fail(recs, task_id) ==
    LET i == WorkflowOf(recs, task_id, 1)
    IN IF i = 0 THEN recs
       ELSE [recs EXCEPT ![i].status = "failed", ![i].error = task_id]

\* the guard of execute_task: `if task.status != PENDING: return`
CanExecute(objs, o) == objs[o].status = PENDING

\* worker(): heappop, then execute_task: the guard, running_tasks += 1,
\* status RUNNING, and the call of on_task_start.  The worker is then
\* suspended at "execute": in `await self.on_task_start(...)` or in
\* `await self._execute_task_logic(task)`, which awaits the node function.
\* With an empty heap the worker sleeps 0.1 s and tries again, which
\* changes nothing.
worker_pop(w) ==
    /\ w \in DOMAIN workers
    /\ workers[w].pc = "idle"
    /\ is_running
    /\ priority_queue # <<>>
    /\ LET o == Head(priority_queue)[2]
       IN /\ priority_queue' = Tail(priority_queue)
          /\ IF CanExecute(objects, o)
             THEN /\ running_tasks' = running_tasks + 1
                  /\ objects' = SetStatus(objects, o, RUNNING)
                  /\ started' = [started EXCEPT ![objects[o].task_id] = @ + 1]
                  /\ tqm_tasks' = _on_task_start(tqm_tasks, objects[o].task_id)
                  /\ workers' = [workers EXCEPT ![w] = [pc |-> "execute", task |-> o]]
             ELSE UNCHANGED <<running_tasks, objects, started, tqm_tasks, workers>>
    /\ UNCHANGED <<plan, tasks, task_order, dependency_graph, completed_tasks,
                   failed_tasks, is_running, all_tasks_completed,
                   completed_cb, failed_cb, stops, readds>>
    /\ UNCHANGED xvars
    /\ UNCHANGED <<mvars, pvars, kvars>>

\* the node function returned: status COMPLETED, the result stored, then
\* `await self.on_task_complete(...)`
task_returns(w) ==
    /\ w \in DOMAIN workers
    /\ workers[w].pc = "execute"
    /\ LET o == workers[w].task
       IN /\ objects' = SetStatus(objects, o, COMPLETED)
          /\ completed_cb' = [completed_cb EXCEPT ![objects[o].task_id] = @ + 1]
          /\ tqm_tasks' = _on_task_complete(tqm_tasks, objects[o].task_id, tasks,
                                            SetStatus(objects, o, COMPLETED))
    /\ workers' = [workers EXCEPT ![w].pc = "on_task_complete"]
    /\ UNCHANGED <<plan, tasks, task_order, priority_queue, dependency_graph,
                   running_tasks, completed_tasks, failed_tasks, is_running,
                   all_tasks_completed, started, failed_cb, stops, readds>>
    /\ UNCHANGED xvars
    /\ UNCHANGED <<mvars, pvars, kvars>>

\* the node function (or its lookup) raised: status FAILED, then
\* `await self.on_task_fail(...)`
task_raises(w) ==
    /\ w \in DOMAIN workers
    /\ workers[w].pc = "execute"
    /\ LET o == workers[w].task
       IN /\ objects' = SetStatus(objects, o, FAILED)
          /\ failed_cb' = [failed_cb EXCEPT ![objects[o].task_id] = @ + 1]
          /\ tqm_tasks' = _on_task_fail(tqm_tasks, objects[o].task_id)
    /\ workers' = [workers EXCEPT ![w].pc = "on_task_fail"]
    /\ UNCHANGED <<plan, tasks, task_order, priority_queue, dependency_graph,
                   running_tasks, completed_tasks, failed_tasks, is_running,
                   all_tasks_completed, started, completed_cb, stops, readds>>
    /\ UNCHANGED xvars
    /\ UNCHANGED <<mvars, pvars, kvars>>

\* _check_dependencies(completed_task_id): every dependent that the map
\* holds as PENDING and whose dependencies are all COMPLETED is pushed with
\* priority 0
RECURSIVE CheckLoop(_, _, _, _)
CheckLoop(dependents, ts, objs, h) ==
    IF dependents = <<>> THEN h
    ELSE LET d == Head(dependents)
         IN IF d \in DOMAIN ts /\ objs[ts[d]].status = PENDING
               /\ DepsCompleted(ts, objs, objs[ts[d]].dependencies)
            THEN CheckLoop(Tail(dependents), ts, objs, HeapInsert(h, <<0, ts[d]>>))
            ELSE CheckLoop(Tail(dependents), ts, objs, h)

check_dependencies(dg, ts, objs, h, t) ==
    CheckLoop(IF t \in DOMAIN dg THEN dg[t] ELSE <<>>, ts, objs, h)

\* on_task_complete returned: completed_tasks += 1, _check_dependencies,
\* then the finally block
task_completed(w) ==
    /\ w \in DOMAIN workers
    /\ workers[w].pc = "on_task_complete"
    /\ completed_tasks' = completed_tasks + 1
    /\ priority_queue' =
          check_dependencies(dependency_graph, tasks, objects, priority_queue,
                             objects[workers[w].task].task_id)
    /\ running_tasks' = running_tasks - 1
    /\ all_tasks_completed' =
          (all_tasks_completed \/ AllTasksProcessed(tasks, objects))
    /\ workers' = [workers EXCEPT ![w] = [pc |-> "idle", task |-> 0]]
    /\ UNCHANGED <<plan, objects, tasks, task_order, dependency_graph,
                   failed_tasks, is_running, started, completed_cb, failed_cb,
                   stops, readds>>
    /\ UNCHANGED gvars
    /\ UNCHANGED <<mvars, pvars, kvars>>

\* on_task_fail returned: failed_tasks += 1, then the finally block
task_failed(w) ==
    /\ w \in DOMAIN workers
    /\ workers[w].pc = "on_task_fail"
    /\ failed_tasks' = failed_tasks + 1
    /\ running_tasks' = running_tasks - 1
    /\ all_tasks_completed' =
          (all_tasks_completed \/ AllTasksProcessed(tasks, objects))
    /\ workers' = [workers EXCEPT ![w] = [pc |-> "idle", task |-> 0]]
    /\ UNCHANGED <<plan, objects, tasks, task_order, priority_queue,
                   dependency_graph, completed_tasks, is_running, started,
                   completed_cb, failed_cb, stops, readds>>
    /\ UNCHANGED gvars
    /\ UNCHANGED <<mvars, pvars, kvars>>

\* =================================================================
\* Part 2: TopologicalSorter, GraphExecutor.execute_graph,
\*         TaskQueueManager.add_workflow
\* =================================================================
NodeIds == 1..NumNodes

\* Node.type: nodes 1 and 3 share a type, so that a rollback function,
\* which the registry keys by node type, can serve two nodes
NodeTypes == {"a", "b"}
NodeType(n) == IF n % 2 = 1 THEN "a" ELSE "b"

\* node.type: the nodes that `conditions` lists are of type "condition"
TypeOf(n) == IF n \in DOMAIN conditions THEN "condition" ELSE NodeType(n)

\* control_flow_nodes.condition_node
condition_node(condition, true_path, false_path) ==
    [result |-> condition,
     next_path |-> IF condition THEN true_path ELSE false_path]

RECURSIVE Reverse(_)
Reverse(s) == IF s = <<>> THEN <<>> ELSE Append(Reverse(Tail(s)), Head(s))

\* the non-decreasing sequences over 1..n of length at most m
RECURSIVE SortedSeqs(_, _)
SortedSeqs(n, m) ==
    IF m = 0 THEN {<<>>}
    ELSE LET shorter == SortedSeqs(n, m - 1)
         IN shorter \cup
            UNION {{Append(q, x) : x \in {y \in 1..n : q = <<>> \/ q[Len(q)] <= y}} :
                     q \in shorter}

\* the i-th pair <<source, target>> of k nodes
EdgeOf(k, i) == <<((i - 1) \div k) + 1, ((i - 1) % k) + 1>>

\* The graphs submitted: k nodes in dict order 1..k (up to n) and up to m
\* edges <<source, target>> between them; self-loops and parallel edges
\* included, the edges dict listing them sorted by source, then target.
\* Every edge has its reference in the target's inputs
\* ({"$ref": "<source>.outputs.<name>"}), as the Graph invariant demands,
\* so the references of a node are its incoming edges.
Graphs(n, m) ==
    UNION {{[nodes |-> Interval(1, k),
             edges |-> [i \in 1..Len(q) |-> EdgeOf(k, q[i])]] :
               q \in SortedSeqs(k * k, m)} : k \in 0..n}

\* Graph.get_edges_from_node / get_edges_to_node
get_edges_from_node(g, n) == SelectSeq(g.edges, LAMBDA e : e[1] = n)
get_edges_to_node(g, n) == SelectSeq(g.edges, LAMBDA e : e[2] = n)

\* kahn_sort: the in-degree count
RECURSIVE InDegree(_, _)
InDegree(es, deg) ==
    IF es = <<>> THEN deg
    ELSE InDegree(Tail(es), [deg EXCEPT ![Head(es)[2]] = @ + 1])

\* kahn_sort: the loop over the outgoing edges of the node just emitted
RECURSIVE KahnEdges(_, _, _)
KahnEdges(es, deg, queue) ==
    IF es = <<>> THEN [deg |-> deg, queue |-> queue]
    ELSE LET n == Head(es)[2]
             d == [deg EXCEPT ![n] = @ - 1]
         IN KahnEdges(Tail(es), d, IF d[n] = 0 THEN Append(queue, n) ELSE queue)

\* kahn_sort: the while loop over the deque
RECURSIVE KahnLoop(_, _, _, _)
KahnLoop(g, queue, deg, order) ==
    IF queue = <<>> THEN order
    ELSE LET n == Head(queue)
             r == KahnEdges(get_edges_from_node(g, n), deg, Tail(queue))
         IN KahnLoop(g, r.queue, r.deg, Append(order, n))

\* A faulty kahn_sort that returns what it has without the length test.
kahn_sort_unchecked(g) ==
    LET deg == InDegree(g.edges, [n \in SeqToSet(g.nodes) |-> 0])
        queue == SelectSeq(g.nodes, LAMBDA n : deg[n] = 0)
    IN [cycle |-> FALSE, order |-> KahnLoop(g, queue, deg, <<>>)]

\* TopologicalSorter.kahn_sort: [cycle |-> the ValueError is raised,
\* order |-> the order returned]
kahn_sort(g) ==
    LET deg == InDegree(g.edges, [n \in SeqToSet(g.nodes) |-> 0])
        queue == SelectSeq(g.nodes, LAMBDA n : deg[n] = 0)
        order == KahnLoop(g, queue, deg, <<>>)
    IN [cycle |-> Len(order) # Len(g.nodes), order |-> order]

\* dfs_sort: the nested dfs(node_id) on st = [visited, order, cycle]; the
\* loop over the outgoing edges calls dfs for every target, and the lines
\* after the loop run even when a cycle was detected below
RECURSIVE DfsVisit(_, _, _), DfsEdges(_, _, _)
DfsVisit(g, n, st) ==
    IF st.cycle THEN st
    ELSE IF st.visited[n] = 1 THEN [st EXCEPT !.cycle = TRUE]
    ELSE IF st.visited[n] = 2 THEN st
    ELSE LET st1 == [st EXCEPT !.visited[n] = 1]
             st2 == DfsEdges(g, get_edges_from_node(g, n), st1)
         IN [st2 EXCEPT !.visited[n] = 2, !.order = Append(@, n)]

DfsEdges(g, es, st) ==
    IF es = <<>> THEN st
    ELSE DfsEdges(g, Tail(es), DfsVisit(g, Head(es)[2], st))

\* dfs_sort: the loop over graph.nodes
RECURSIVE DfsNodes(_, _, _)
DfsNodes(g, ns, st) ==
    IF ns = <<>> THEN st
    ELSE DfsNodes(g, Tail(ns),
                  IF st.visited[Head(ns)] = 0 THEN DfsVisit(g, Head(ns), st) ELSE st)

\* A faulty dfs_sort that returns the finish order without reversing it.
dfs_sort_finish_order(g) ==
    LET st == DfsNodes(g, g.nodes,
                       [visited |-> [n \in SeqToSet(g.nodes) |-> 0],
                        order |-> <<>>, cycle |-> FALSE])
    IN [cycle |-> st.cycle, order |-> st.order]

\* TopologicalSorter.dfs_sort
dfs_sort(g) ==
    LET st == DfsNodes(g, g.nodes,
                       [visited |-> [n \in SeqToSet(g.nodes) |-> 0],
                        order |-> <<>>, cycle |-> FALSE])
    IN [cycle |-> st.cycle, order |-> Reverse(st.order)]

\* self._topology_sort_func
topology_sort(sorter, g) == IF sorter = "kahn" THEN kahn_sort(g) ELSE dfs_sort(g)

NoError == [kind |-> "none", node |-> 0]

GInit ==
    /\ graph \in Graphs(NumNodes, MaxEdges)
    /\ conditions = <<>>
    /\ topology_sorter \in {"kahn", "dfs"}
    /\ node_functions \in {NodeTypes, {"a"}}
    /\ rollback_functions \in SUBSET NodeTypes
    /\ api = "none"
    /\ gpc = "submit"
    /\ topological_order = <<>>
    /\ pos = 1
    /\ results = {}
    /\ executed_nodes = <<>>
    /\ rb_pos = 0
    /\ error = NoError
    /\ tqm_tasks = <<>>
    /\ node_started = <<>>
    /\ node_completed = <<>>
    /\ executor_calls = <<>>
    /\ rolled_back = <<>>
    /\ rollback_failed = {}

\* The graphs with a node c of type "condition" that has an edge to each of
\* the two nodes its inputs true_path and false_path name
BranchGraphs(n, m) ==
    {gc \in Graphs(n, m) \X [node : 1..n, condition : BOOLEAN,
                             true_path : 1..n, false_path : 1..n] :
        /\ gc[2].true_path # gc[2].false_path
        /\ {gc[2].node, gc[2].true_path, gc[2].false_path} \subseteq SeqToSet(gc[1].nodes)
        /\ <<gc[2].node, gc[2].true_path>> \in SeqToSet(gc[1].edges)
        /\ <<gc[2].node, gc[2].false_path>> \in SeqToSet(gc[1].edges)}

\* the submissions to execute_graph and execute_graph_async: a graph without
\* or with a condition node, the control-flow nodes being registered with
\* the other node types
ExecutorInit ==
    /\ \/ graph \in Graphs(NumNodes, MaxEdges) /\ conditions = <<>>
       \/ \E gc \in BranchGraphs(NumNodes, MaxEdges) :
            /\ graph = gc[1]
            /\ conditions = [c \in {gc[2].node} |->
                                [condition |-> gc[2].condition,
                                 true_path |-> gc[2].true_path,
                                 false_path |-> gc[2].false_path]]
    /\ topology_sorter \in {"kahn", "dfs"}
    /\ node_functions \in {NodeTypes \cup {"condition"}, {"a", "condition"}}
    /\ rollback_functions \in SUBSET NodeTypes
    /\ api = "none"
    /\ gpc = "submit"
    /\ topological_order = <<>>
    /\ pos = 1
    /\ results = {}
    /\ executed_nodes = <<>>
    /\ rb_pos = 0
    /\ error = NoError
    /\ tqm_tasks = <<>>
    /\ node_started = <<>>
    /\ node_completed = <<>>
    /\ executor_calls = <<>>
    /\ rolled_back = <<>>
    /\ rollback_failed = {}

\* the state of the graph variables while only the queue is exercised
GIdle ==
    /\ graph = [nodes |-> <<>>, edges |-> <<>>]
    /\ conditions = <<>>
    /\ topology_sorter = "kahn"
    /\ node_functions = NodeTypes
    /\ rollback_functions = {}
    /\ api = "none"
    /\ gpc = "submit"
    /\ topological_order = <<>>
    /\ pos = 1
    /\ results = {}
    /\ executed_nodes = <<>>
    /\ rb_pos = 0
    /\ error = NoError
    /\ tqm_tasks = <<>>
    /\ node_started = <<>>
    /\ node_completed = <<>>
    /\ executor_calls = <<>>
    /\ rolled_back = <<>>
    /\ rollback_failed = {}

\* execute_graph, first statement: the topological sort, outside the try
execute_graph ==
    /\ gpc = "submit"
    /\ api' = "execute_graph"
    /\ LET r == topology_sort(topology_sorter, graph)
       IN IF r.cycle
          THEN /\ gpc' = "raised"
               /\ error' = [kind |-> "cycle", node |-> 0]
               /\ UNCHANGED topological_order
          ELSE /\ gpc' = "loop"
               /\ topological_order' = r.order
               /\ UNCHANGED error
    /\ UNCHANGED <<graph, conditions, topology_sorter, node_functions,
                   rollback_functions,
                   pos, results, executed_nodes, rb_pos, tqm_tasks,
                   node_started, node_completed, executor_calls, rolled_back,
                   rollback_failed>>
    /\ UNCHANGED qvars
    /\ UNCHANGED <<mvars, pvars, kvars>>

\* _resolve_node_inputs finds every source of a reference in results
SourcesExecuted(g, n, res) ==
    \A i \in 1..Len(get_edges_to_node(g, n)) : get_edges_to_node(g, n)[i][1] \in res

\* what one pass of the loop body can do with node n.  The node function
\* and the outputs it returned are the caller's: a call may return or
\* raise, and a referenced output may be missing from the source's result.
Outcomes(g, n, res, funcs) ==
    IF ~SourcesExecuted(g, n, res) THEN {"not_executed"}
    ELSE (IF get_edges_to_node(g, n) # <<>> THEN {"missing_output"} ELSE {})
         \cup (IF TypeOf(n) \notin funcs THEN {"no_function"}
               ELSE IF TypeOf(n) = "condition" THEN {"ok"}
               ELSE {"ok", "executor"})

\* A faulty loop body that calls the node function with the inputs it has
\* although a reference did not resolve.
calls_node_function_unresolved(o) == o \in {"ok", "executor", "missing_output"}

\* execute_graph, loop body: node_func(**input_values) is reached when
\* _resolve_node_inputs returned and the node type has a function
calls_node_function(o) == o \in {"ok", "executor"}

\* A faulty rollback order: completion order instead of its reverse.
CompletionOrder(executed) == executed

\* _rollback_nodes: `for node_id in reversed(executed_nodes)`
RollbackOrder(executed) == Reverse(executed)

\* execute_graph, one pass of the for loop: on_node_start, the inputs, the
\* node function, then the outputs and on_node_complete; any exception
\* enters the except clause, which starts _rollback_nodes
execute_node ==
    /\ gpc = "loop"
    /\ pos <= Len(topological_order)
    /\ LET n == topological_order[pos]
       IN /\ node_started' = Append(node_started, n)
          /\ \E o \in Outcomes(graph, n, results, node_functions) :
               /\ executor_calls' =
                     IF calls_node_function(o) THEN Append(executor_calls, n)
                     ELSE executor_calls
               /\ IF o = "ok"
                  THEN /\ results' = results \cup {n}
                       /\ executed_nodes' = Append(executed_nodes, n)
                       /\ node_completed' = Append(node_completed, n)
                       /\ pos' = pos + 1
                       /\ UNCHANGED <<gpc, error, rb_pos>>
                  ELSE /\ gpc' = "rollback"
                       /\ error' = [kind |-> o, node |-> n]
                       /\ rb_pos' = Len(executed_nodes)
                       /\ UNCHANGED <<results, executed_nodes, node_completed, pos>>
    /\ UNCHANGED <<graph, conditions, topology_sorter, node_functions,
                   rollback_functions,
                   api, topological_order, tqm_tasks, rolled_back,
                   rollback_failed>>
    /\ UNCHANGED qvars
    /\ UNCHANGED <<mvars, pvars, kvars>>

\* execute_graph: the loop is over, `return results`
execute_graph_returns ==
    /\ gpc = "loop"
    /\ pos > Len(topological_order)
    /\ gpc' = "returned"
    /\ UNCHANGED <<graph, conditions, topology_sorter, node_functions,
                   rollback_functions,
                   api, topological_order, pos, results, executed_nodes,
                   rb_pos, error, tqm_tasks, node_started, node_completed,
                   executor_calls, rolled_back, rollback_failed>>
    /\ UNCHANGED qvars
    /\ UNCHANGED <<mvars, pvars, kvars>>

\* A faulty handler: a raising rollback ends the cascade and its error
\* replaces the one being handled.
RollbackRaisedAborts(left, err, n) ==
    [left |-> 0, error |-> [kind |-> "rollback", node |-> n]]

\* _rollback_nodes, `except Exception as e: logging.error(...)`: the loop
\* goes on and the exception being handled is untouched
RollbackRaised(left, err, n) == [left |-> left - 1, error |-> err]

\* _rollback_nodes, one pass of the loop: a node whose type has no rollback
\* function is skipped; otherwise the inputs are resolved again (they
\* resolved when the node ran and results only grew) and the rollback
\* function is called; it may raise
rollback_node ==
    /\ gpc = "rollback"
    /\ rb_pos > 0
    /\ LET order == RollbackOrder(executed_nodes)
           n == order[Len(order) - rb_pos + 1]
       IN IF TypeOf(n) \notin rollback_functions
          THEN /\ rb_pos' = rb_pos - 1
               /\ UNCHANGED <<rolled_back, rollback_failed, error>>
          ELSE /\ rolled_back' = Append(rolled_back, n)
               /\ \/ /\ rb_pos' = rb_pos - 1
                     /\ UNCHANGED <<rollback_failed, error>>
                  \/ /\ rollback_failed' = rollback_failed \cup {n}
                     /\ LET r == RollbackRaised(rb_pos, error, n)
                        IN /\ rb_pos' = r.left
                           /\ error' = r.error
    /\ UNCHANGED <<graph, conditions, topology_sorter, node_functions,
                   rollback_functions,
                   api, gpc, topological_order, pos, results, executed_nodes,
                   tqm_tasks, node_started, node_completed, executor_calls>>
    /\ UNCHANGED qvars
    /\ UNCHANGED <<mvars, pvars, kvars>>

\* execute_graph: _rollback_nodes returned, `raise`
execute_graph_raises ==
    /\ gpc = "rollback"
    /\ rb_pos = 0
    /\ gpc' = "raised"
    /\ UNCHANGED <<graph, conditions, topology_sorter, node_functions,
                   rollback_functions,
                   api, topological_order, pos, results, executed_nodes,
                   rb_pos, error, tqm_tasks, node_started, node_completed,
                   executor_calls, rolled_back, rollback_failed>>
    /\ UNCHANGED qvars
    /\ UNCHANGED <<mvars, pvars, kvars>>

\* execute_graph_async, the whole call: the sort raises on a cycle;
\* otherwise a queue of its own is created and gets one Task per node, and
\* `await queue.process_tasks()` raises AttributeError, ExecutionQueue
\* having no such method.  The queue, which was never started, is dropped
\* with the frame; no callback ran.
execute_graph_async ==
    /\ gpc = "submit"
    /\ api' = "execute_graph_async"
    /\ gpc' = "raised"
    /\ error' = IF topology_sort(topology_sorter, graph).cycle
                THEN [kind |-> "cycle", node |-> 0]
                ELSE [kind |-> "no_process_tasks", node |-> 0]
    /\ UNCHANGED <<graph, conditions, topology_sorter, node_functions,
                   rollback_functions, topological_order, pos, results,
                   executed_nodes, rb_pos, tqm_tasks, node_started,
                   node_completed, executor_calls, rolled_back,
                   rollback_failed>>
    /\ UNCHANGED qvars
    /\ UNCHANGED <<mvars, pvars, kvars>>

\* ascending enumeration of a set of node ids
RECURSIVE SetToSeq(_)
SetToSeq(S) ==
    IF S = {} THEN <<>>
    ELSE LET m == CHOOSE x \in S : \A y \in S : x <= y
         IN <<m>> \o SetToSeq(S \ {m})

\* add_workflow: node_dependencies[node_id], the set of the nodes that the
\* node's inputs reference
node_dependencies(g, n) == {e[1] : e \in SeqToSet(get_edges_to_node(g, n))}

\* add_workflow: the nested dfs(node_id) on st = [visited, temp, sorted,
\* cycle]; cycle stands for the ValueError("Circular dependency ..."),
\* which ends the whole traversal.  The set of dependencies is walked in
\* ascending order.
RECURSIVE WfVisit(_, _, _), WfDeps(_, _, _)
WfVisit(g, n, st) ==
    IF st.cycle THEN st
    ELSE IF n \in st.temp THEN [st EXCEPT !.cycle = TRUE]
    ELSE IF n \in st.visited THEN st
    ELSE LET st1 == [st EXCEPT !.temp = @ \cup {n}]
             st2 == WfDeps(g, SetToSeq(node_dependencies(g, n)), st1)
         IN IF st2.cycle THEN st2
            ELSE [st2 EXCEPT !.temp = @ \ {n}, !.visited = @ \cup {n},
                             !.sorted = Append(@, n)]

WfDeps(g, ds, st) ==
    IF ds = <<>> \/ st.cycle THEN st
    ELSE WfDeps(g, Tail(ds), WfVisit(g, Head(ds), st))

\* add_workflow: the loop `for node_id in node_dependencies`
RECURSIVE WfNodes(_, _, _)
WfNodes(g, ns, st) ==
    IF ns = <<>> \/ st.cycle THEN st
    ELSE WfNodes(g, Tail(ns),
                 IF Head(ns) \notin st.visited THEN WfVisit(g, Head(ns), st) ELSE st)

\* add_workflow: the topological sort of the nodes by their references
WfSort(g) ==
    LET st == WfNodes(g, g.nodes,
                      [visited |-> {}, temp |-> {}, sorted |-> <<>>, cycle |-> FALSE])
    IN [cycle |-> st.cycle, sorted |-> st.sorted]

\* add_workflow: the Task of node n depends on the task of every
\* reference in its inputs, one entry per reference
WfDependencies(g, n) ==
    LET es == get_edges_to_node(g, n)
    IN [i \in 1..Len(es) |-> es[i][1]]

\* add_workflow: `for task in tasks_to_add: self.execution_queue.add_task(task)`
RECURSIVE WfAddTasks(_, _, _)
WfAddTasks(q, g, ns) ==
    IF ns = <<>> THEN q
    ELSE WfAddTasks(AddNewTask(q, Head(ns), WfDependencies(g, Head(ns)), 0), g, Tail(ns))

\* TaskQueueManager.add_workflow on a workflow that passes
\* validate_workflow; every node gets a new Task, whose uuid4 id is
\* written n for node n
add_workflow ==
    /\ gpc = "submit"
    /\ api' = "add_workflow"
    /\ LET r == WfSort(graph)
       IN IF r.cycle
          THEN /\ gpc' = "raised"
               /\ error' = [kind |-> "cycle", node |-> 0]
               /\ UNCHANGED <<objects, tasks, task_order, dependency_graph,
                              priority_queue, tqm_tasks>>
          ELSE /\ gpc' = "returned"
               /\ tqm_tasks' = Append(tqm_tasks,
                                      [status |-> "queued", error |-> 0,
                                       node_tasks |-> SeqToSet(r.sorted)])
               /\ LET q == WfAddTasks(Queue, graph, r.sorted)
                  IN /\ objects' = q.objects
                     /\ tasks' = q.tasks
                     /\ task_order' = q.task_order
                     /\ dependency_graph' = q.dependency_graph
                     /\ priority_queue' = q.priority_queue
               /\ UNCHANGED error
    /\ UNCHANGED <<graph, conditions, topology_sorter, node_functions,
                   rollback_functions,
                   topological_order, pos, results, executed_nodes, rb_pos,
                   node_started, node_completed, executor_calls, rolled_back,
                   rollback_failed>>
    /\ UNCHANGED <<plan, running_tasks, completed_tasks, failed_tasks,
                   is_running, all_tasks_completed, workers, started,
                   completed_cb, failed_cb, stops, readds>>
    /\ UNCHANGED <<mvars, pvars, kvars>>

\* =================================================================
\* Part 3: ModuleManager (core/module/module_manager.py)
\*
\* load_module, activate_module and deactivate_module are coroutines.  A
\* call runs without interruption up to an await that suspends: the loader
\* (asyncio.to_thread or the async loader, under wait_for), the sleeps of
\* _wait_for_module_state and of the retry delay, and the activate and
\* deactivate callables of the module.  The operators below are the code
\* between two such points; a frame left on the stack of a call is where it
\* is suspended.  A coroutine keeps the ModuleInstance it fetched on entry.

\* ModuleState; ModuleState.FAILED is the string of TaskStatus.FAILED
UNLOADED == "unloaded"
LOADING == "loading"
LOADED == "loaded"
ACTIVATING == "activating"
ACTIVATED == "activated"

None == "None"
TheModule == "Module"
TheApi == "Api"

\* ModuleManager.__init__
_max_retries == 3

\* ModuleInstance.__init__
ModuleInstance(id) ==
    [module_id |-> id, module |-> None, state |-> UNLOADED, load_attempts |-> 0]

\* ModuleMetadata.dependencies of the modules of an installation: a chain
\* (module id depends on id + 1, the last one on nothing) or a cycle
NoDependencies == [id \in ModuleIds |-> <<>>]
DependencyChain == [id \in ModuleIds |-> IF id < NumModules THEN <<id + 1>> ELSE <<>>]
DependencyCycle == [id \in ModuleIds |-> <<(id % NumModules) + 1>>]
ModulePlans == {DependencyChain, DependencyCycle}

\* installations with a dependency cycle: the cycle through every module,
\* or module 1 depending on itself next to modules without dependencies
SelfDependency == [id \in ModuleIds |-> IF id = 1 THEN <<1>> ELSE <<>>]
CyclePlans == {DependencyCycle, SelfDependency}

\* register_module_loader: every module has a loader, or all but the last
LoaderPlans == {ModuleIds, ModuleIds \ {NumModules}}

\* Module.get_api: the base class returns None, module 1 does not override it
get_api(id) == IF id = 1 THEN None ELSE TheApi

\* the manager as the coroutines see it, with an empty log for the next run;
\* loaded collects the <<instance, attempt>> whose loader returns in the run
Manager ==
    [instances |-> instances, modules |-> _modules,
     loader_calls |-> loader_calls, loaded |-> {}, log |-> {}]

Event(ev, id, arg, val) == [ev |-> ev, id |-> id, arg |-> arg, val |-> val]

Log(M, ev, id, arg, val) == [M EXCEPT !.log = @ \cup {Event(ev, id, arg, val)}]

\* module_instance.state = s
SetState(M, i, s) ==
    LET old == M.instances[i].state
    IN IF old = s THEN M
       ELSE Log([M EXCEPT !.instances[i].state = s],
                "state", M.instances[i].module_id, old, s)

\* a failure that leaves the record without module_instance.error
FailUnrecorded(M, i) == SetState(M, i, FAILED)

\* module_instance.state = ModuleState.FAILED; module_instance.error = ...
Fail(M, i) ==
    Log(SetState(M, i, FAILED), "error", M.instances[i].module_id, "", "")

\* self._modules[module_id] = <a new ModuleInstance>
PutInstance(M, id, mi) ==
    [M EXCEPT !.instances = Append(@, mi),
              !.loader_calls = Append(@, 0),
              !.modules = [x \in DOMAIN @ \cup {id} |->
                              IF x = id THEN Len(M.instances) + 1 ELSE @[x]]]

Frame(op, id, inst) ==
    [op |-> op, id |-> id, inst |-> inst, pc |-> "start", k |-> 0,
     attempt |-> 0, loaded |-> FALSE]

\* the call is suspended in frame f at pc, or (no frame left) has returned
Run(M, stk) == [M |-> M, stk |-> stk]

Suspend(M, stk, f, pc) == Run(M, Append(stk, [f EXCEPT !.pc = pc]))

\* _validate_dependencies that accepts a dependency that is being activated
_validate_dependencies_while_activating(M, id) ==
    \A d \in SeqToSet(metadata[id]) :
        /\ d \in DOMAIN M.modules
        /\ M.instances[M.modules[d]].state \notin {FAILED, LOADING}

\* _validate_dependencies that rejects only an absent or failed dependency
_validate_dependencies_no_transient(M, id) ==
    \A d \in SeqToSet(metadata[id]) :
        /\ d \in DOMAIN M.modules
        /\ M.instances[M.modules[d]].state # FAILED

\* _validate_dependencies
_validate_dependencies(M, id) ==
    \A d \in SeqToSet(metadata[id]) :
        /\ d \in DOMAIN M.modules
        /\ M.instances[M.modules[d]].state \notin {FAILED, LOADING, ACTIVATING}

RECURSIVE Return(_, _, _, _)
RECURSIVE load_module(_, _, _)
RECURSIVE activate_module(_, _, _)
RECURSIVE begin_activation(_, _, _)
RECURSIVE activate_dependencies(_, _, _, _)

\* load_module from its entry to the first await or to its return
load_module(M, stk, id) ==
    LET M1 == IF id \in DOMAIN M.modules THEN M
              ELSE PutInstance(M, id, ModuleInstance(id))
        i == M1.modules[id]
        mi == M1.instances[i]
        f == [Frame("load_module", id, i) EXCEPT !.attempt = mi.load_attempts]
    IN IF mi.state \in {LOADED, ACTIVATED, ACTIVATING}
         THEN Return(M1, stk, f, mi.module)
       ELSE IF mi.state = LOADING
         THEN Suspend(M1, stk, f, "wait")
       ELSE IF mi.load_attempts >= _max_retries
         THEN Return(Log(SetState(M1, i, FAILED), "giveup", id, "", ""),
                     stk, f, None)
       ELSE LET M2 == [SetState(M1, i, LOADING)
                          EXCEPT !.instances[i].load_attempts = @ + 1]
            IN IF id \in _module_loaders
                 THEN Suspend(Log([M2 EXCEPT !.loader_calls[i] = @ + 1],
                                  "invoke", id, "loader", ""),
                              stk, [f EXCEPT !.attempt = mi.load_attempts + 1],
                              "loader")
                 ELSE Return(Fail(M2, i), stk, f, None)

\* activate_module from its entry to the first await or to its return
activate_module(M, stk, id) ==
    IF id \notin DOMAIN M.modules
      THEN Return(M, stk, Frame("activate_module", id, 0), "False")
      ELSE LET i == M.modules[id]
               mi == M.instances[i]
               f == Frame("activate_module", id, i)
           IN IF mi.state = ACTIVATED THEN Return(M, stk, f, "True")
              ELSE IF mi.state = ACTIVATING THEN Suspend(M, stk, f, "wait")
              ELSE IF mi.state # LOADED
                THEN load_module(M, Append(stk, [f EXCEPT !.pc = "load"]), id)
              ELSE begin_activation(M, stk, f)

\* activate_module from "state = ACTIVATING" through the validation
begin_activation(M, stk, f) ==
    LET M1 == SetState(M, f.inst, ACTIVATING)
    IN IF M1.instances[f.inst].module = None
         THEN Return(Fail(M1, f.inst), stk, f, "False")
       ELSE IF ~_validate_dependencies(M1, f.id)
         THEN Return(Fail(Log(M1, "validate", f.id, "", "False"), f.inst),
                     stk, f, "False")
       ELSE activate_dependencies(Log(M1, "validate", f.id, "", "True"),
                                  stk, f, 1)

\* the loop over module.metadata.dependencies from its k-th element, then
\* the call of module.activate(); the modules declare no
\* python_dependencies, so nothing is installed in between
activate_dependencies(M, stk, f, k) ==
    IF k > Len(metadata[f.id])
      THEN Suspend(Log(M, "invoke", f.id, "activate", ""), stk, f, "activate")
      ELSE activate_module(M, Append(stk, [f EXCEPT !.pc = "dependency", !.k = k]),
                           metadata[f.id][k])

\* frame f returns v: to the loop (the call is over) or to the frame of
\* activate_module that awaits it
Return(M, stk, f, v) ==
    LET M1 == Log(M, "return", f.id, f.op, v)
    IN IF stk = <<>> THEN Run(M1, <<>>)
       ELSE LET p == stk[Len(stk)]
                rest == SubSeq(stk, 1, Len(stk) - 1)
            IN IF p.pc = "load"
                 THEN IF v = None THEN Return(M1, rest, p, "False")
                      ELSE begin_activation(M1, rest, p)
                 ELSE IF v = "False"
                        THEN Return(Fail(M1, p.inst), rest, p, "False")
                        ELSE activate_dependencies(M1, rest, p, p.k + 1)

\* deactivate_module from its entry to the await of module.deactivate()
deactivate_module(M, stk, id) ==
    IF id \notin DOMAIN M.modules
      THEN Return(M, stk, Frame("deactivate_module", id, 0), "True")
      ELSE LET i == M.modules[id]
               mi == M.instances[i]
               f == Frame("deactivate_module", id, i)
           IN IF mi.state # ACTIVATED THEN Return(M, stk, f, "True")
              ELSE IF mi.module = None THEN Return(M, stk, f, "False")
              ELSE Suspend(Log(M, "invoke", id, "deactivate", ""),
                           stk, f, "deactivate")

\* get_module_api without the test of the state
get_module_api_any_state(id) ==
    IF id \in DOMAIN _modules /\ instances[_modules[id]].module # None
      THEN get_api(id) ELSE None

\* get_module_api
get_module_api(id) ==
    IF id \notin DOMAIN _modules THEN None
    ELSE LET mi == instances[_modules[id]]
         IN IF mi.module = None THEN None
            ELSE IF mi.state # ACTIVATED THEN None
            ELSE get_api(id)

\* get_module_state
get_module_state(id) ==
    IF id \notin DOMAIN _modules THEN None ELSE instances[_modules[id]].state

MNew ==
    /\ instances = <<>>
    /\ _modules = <<>>
    /\ coroutines = [c \in CallIds |-> <<>>]
    /\ loader_calls = <<>>
    /\ log = {}

\* ModuleManager() with the loaders and the modules of one installation
MInit ==
    /\ metadata \in ModulePlans
    /\ _module_loaders \in LoaderPlans
    /\ MNew

\* the state of the module variables while the manager is not exercised
MIdle ==
    /\ metadata = NoDependencies
    /\ _module_loaders = {}
    /\ MNew

\* a frame that waits for the load `attempt` of its instance notes that
\* the loader of that attempt returned
NoteLoaded(stk, loaded) ==
    [j \in 1..Len(stk) |->
        IF /\ stk[j].op = "load_module"
           /\ stk[j].pc = "wait"
           /\ <<stk[j].inst, stk[j].attempt>> \in loaded
          THEN [stk[j] EXCEPT !.loaded = TRUE]
          ELSE stk[j]]

\* the run r of call c becomes the state
Commit(c, r) ==
    /\ instances' = r.M.instances
    /\ _modules' = r.M.modules
    /\ loader_calls' = r.M.loader_calls
    /\ log' = r.M.log
    /\ coroutines' = [x \in CallIds |->
                         IF x = c THEN r.stk
                         ELSE NoteLoaded(coroutines[x], r.M.loaded)]
    /\ UNCHANGED <<metadata, _module_loaders>>
    /\ UNCHANGED <<qvars, gvars, pvars, kvars>>

Top(c) == coroutines[c][Len(coroutines[c])]
Rest(c) == SubSeq(coroutines[c], 1, Len(coroutines[c]) - 1)
Suspended(c, op, pc) ==
    /\ coroutines[c] # <<>>
    /\ Top(c).op = op
    /\ Top(c).pc = pc

\* a caller awaits load_module(id)
call_load_module(c) ==
    /\ coroutines[c] = <<>>
    /\ \E id \in ModuleIds : Commit(c, load_module(Manager, <<>>, id))

\* a caller awaits activate_module(id)
call_activate_module(c) ==
    /\ coroutines[c] = <<>>
    /\ \E id \in ModuleIds : Commit(c, activate_module(Manager, <<>>, id))

\* a caller awaits deactivate_module(id)
call_deactivate_module(c) ==
    /\ coroutines[c] = <<>>
    /\ \E id \in ModuleIds : Commit(c, deactivate_module(Manager, <<>>, id))

\* load_module: the loader returns the module within the timeout
loader_returns(c) ==
    /\ Suspended(c, "load_module", "loader")
    /\ LET f == Top(c)
           M == SetState([Manager EXCEPT !.instances[f.inst].module = TheModule,
                                         !.loaded = {<<f.inst, f.attempt>>}],
                         f.inst, LOADED)
       IN Commit(c, Return(M, Rest(c), f, TheModule))

\* load_module: the loader raises, or wait_for raises TimeoutError; the
\* coroutine then sleeps for the retry delay
loader_raises(c) ==
    /\ Suspended(c, "load_module", "loader")
    /\ LET f == Top(c)
       IN Commit(c, Suspend(Fail(Manager, f.inst), Rest(c), f, "sleep"))

\* load_module: the retry delay is over, None is returned
retry_delay_elapsed(c) ==
    /\ Suspended(c, "load_module", "sleep")
    /\ Commit(c, Return(Manager, Rest(c), Top(c), None))

\* what the caller of _wait_for_module_state returns after the wait
AfterWait(f) ==
    IF f.op = "load_module"
      THEN IF instances[f.inst].state = LOADED
             THEN instances[f.inst].module ELSE None
      ELSE IF instances[f.inst].state = ACTIVATED THEN "True" ELSE "False"

\* _wait_for_module_state wakes up and finds the record in a target state
wait_returns(c) ==
    /\ coroutines[c] # <<>>
    /\ Top(c).pc = "wait"
    /\ LET f == Top(c)
           targets == IF f.op = "load_module" THEN {LOADED, FAILED}
                      ELSE {ACTIVATED, FAILED}
       IN /\ \/ f.id \notin DOMAIN _modules
             \/ instances[_modules[f.id]].state \in targets
          /\ Commit(c, Return(Manager, Rest(c), f, AfterWait(f)))

\* _wait_for_module_state gives up after its timeout
wait_times_out(c) ==
    /\ coroutines[c] # <<>>
    /\ Top(c).pc = "wait"
    /\ Commit(c, Return(Manager, Rest(c), Top(c), AfterWait(Top(c))))

\* activate_module: module.activate() returns within the timeout
activate_returns(c) ==
    /\ Suspended(c, "activate_module", "activate")
    /\ LET f == Top(c)
       IN Commit(c, Return(SetState(Manager, f.inst, ACTIVATED), Rest(c), f, "True"))

\* activate_module: module.activate() raises or exceeds the timeout
activate_raises(c) ==
    /\ Suspended(c, "activate_module", "activate")
    /\ LET f == Top(c)
           M == Log(Manager, "raise", f.id, "activate", "")
       IN Commit(c, Return(Fail(M, f.inst), Rest(c), f, "False"))

\* deactivate_module: module.deactivate() returns
deactivate_returns(c) ==
    /\ Suspended(c, "deactivate_module", "deactivate")
    /\ LET f == Top(c)
       IN Commit(c, Return(SetState(Manager, f.inst, LOADED), Rest(c), f, "True"))

\* deactivate_module with an exception handler that marks the record failed
deactivate_raises_failed(c) ==
    /\ Suspended(c, "deactivate_module", "deactivate")
    /\ LET f == Top(c)
           M == Log(Manager, "raise", f.id, "deactivate", "")
       IN Commit(c, Return(SetState(M, f.inst, FAILED), Rest(c), f, "False"))

\* deactivate_module: module.deactivate() raises
deactivate_raises(c) ==
    /\ Suspended(c, "deactivate_module", "deactivate")
    /\ LET f == Top(c)
       IN Commit(c, Return(Log(Manager, "raise", f.id, "deactivate", ""),
                           Rest(c), f, "False"))

\* =================================================================
\* Part 4: NodeRegistry.validate_workflow and the PluginManager index
\* =================================================================
MaxWorkflowNodes == 3
MaxEntries == 1
MaxTicks == 1

\* the node type names of the index documents
TypeNames == {"Sampler", "Loader"}

\* PluginManager.__init__: self._community_plugins, in dict order
_community_plugins ==
    << [git_url |-> "https://github.com/Example/WAS-Suite.git",
        nodes |-> {"WAS_Suite_Sampler", "WAS_Suite_NoiseGenerator"}],
       [git_url |-> "https://github.com/Example/MyCustomLoader.git",
        nodes |-> {"MyCustomLoader"}] >>

\* every node name a lookup may ask for
NodeNames ==
    TypeNames \cup
    UNION {_community_plugins[i].nodes : i \in DOMAIN _community_plugins}

\* PluginManager.__init__: self._index_cache_duration
_index_cache_duration == 3600

\* the git urls index documents list, and the urls the user adds, disables
\* and enables
PackA == "https://github.com/Example/PackA.git"
PackB == "https://github.com/Example/PackB.git"
IndexedUrls == {PackA, PackB}
Repositories == {PackA, _community_plugins[1].git_url}

\* the value an index document gives under a git url: the documented
\* [[names], {...}], or a plain list of names [name, ...]
Nested(names) == [shape |-> "nested", nodes |-> names]
Flat(names) == [shape |-> "flat", nodes |-> names]
PluginInfos == {Nested({n}) : n \in TypeNames} \cup {Flat({"Sampler"})}

\* the JSON objects an index url may serve, as (git url, value) items in
\* document order
Entries == [git_url : IndexedUrls, plugin_info : PluginInfos]
\* the lists of at most n elements of S
RECURSIVE Lists(_, _)
Lists(S, n) ==
    IF n = 0 THEN {<<>>}
    ELSE LET shorter == Lists(S, n - 1)
         IN shorter \cup {Append(l, x) : l \in shorter, x \in S}

Documents(n) ==
    {d \in Lists(Entries, n) :
        \A i, j \in DOMAIN d : i # j => d[i].git_url # d[j].git_url}

\* what requests.get(...) and response.json() give: a timeout, a connection
\* error, a body that is not JSON, a JSON array, a JSON object
Replies(n) ==
    {[status |-> s, items |-> <<>>] :
        s \in {"timeout", "unreachable", "malformed", "array"}}
    \cup {[status |-> "object", items |-> d] : d \in Documents(n)}

\* what a custom repository url gives: every failure there takes the same
\* `continue`, and its documents list the "Loader" node
RepositoryReplies(n) ==
    {r \in Replies(n) :
        \/ r.status = "unreachable"
        \/ /\ r.status = "object"
           /\ \A i \in DOMAIN r.items : r.items[i].plugin_info = Nested({"Loader"})}

\* d[k] = v on a dict
Put(d, k, v) == [x \in DOMAIN d \cup {k} |-> IF x = k THEN v ELSE d[x]]

\* for node in nodes_list: self._reverse_index[node] = git_url
PutAll(d, ks, v) == [x \in DOMAIN d \cup ks |-> IF x \in ks THEN v ELSE d[x]]

\* the index under construction
Index(cache, reverse) == [cache |-> cache, reverse |-> reverse]

\* fetch_and_cache_index: the loop over the primary index; with the filter
\* off, the loop without the test of the disable list
RECURSIVE main_items(_, _, _)
main_items(idx, items, disabled) ==
    IF items = <<>> THEN idx
    ELSE LET git_url == Head(items).git_url
             plugin_info == Head(items).plugin_info
         IN IF git_url \in disabled \/ plugin_info.shape # "nested"
              THEN main_items(idx, Tail(items), disabled)
              ELSE main_items(Index(Put(idx.cache, git_url, plugin_info.nodes),
                                    PutAll(idx.reverse, plugin_info.nodes, git_url)),
                              Tail(items), disabled)

\* fetch_and_cache_index: the loop over the items of one custom repository
RECURSIVE repo_items(_, _, _)
repo_items(idx, items, disabled) ==
    IF items = <<>> THEN idx
    ELSE LET git_url == Head(items).git_url
             plugin_info == Head(items).plugin_info
             nodes_list == plugin_info.nodes
         IN IF git_url \in disabled \/ plugin_info.shape # "nested"
              THEN repo_items(idx, Tail(items), disabled)
              ELSE repo_items(
                     Index(IF git_url \in DOMAIN idx.cache
                             THEN Put(idx.cache, git_url,
                                      idx.cache[git_url] \cup nodes_list)
                             ELSE Put(idx.cache, git_url, nodes_list),
                           PutAll(idx.reverse, nodes_list, git_url)),
                     Tail(items), disabled)

\* fetch_and_cache_index: the loop over self._custom_repositories; replies[i]
\* is what the i-th repository url serves
RECURSIVE custom_repositories(_, _, _, _)
custom_repositories(idx, repos, replies, disabled) ==
    IF repos = <<>> THEN idx
    ELSE LET rest(i) == custom_repositories(i, Tail(repos), Tail(replies), disabled)
         IN IF Head(repos) \in disabled THEN rest(idx)
            ELSE IF Head(replies).status # "object" THEN rest(idx)
            ELSE rest(repo_items(idx, Head(replies).items, disabled))

\* fetch_and_cache_index: the loop over self._community_plugins
RECURSIVE community_plugins(_, _)
community_plugins(idx, plugins) ==
    IF plugins = <<>> THEN idx
    ELSE LET git_url == Head(plugins).git_url
             nodes == Head(plugins).nodes
         IN IF git_url # "" /\ nodes # {}
              THEN community_plugins(
                     Index(IF git_url \in DOMAIN idx.cache
                             THEN Put(idx.cache, git_url, idx.cache[git_url] \cup nodes)
                             ELSE Put(idx.cache, git_url, nodes),
                           PutAll(idx.reverse, nodes, git_url)),
                     Tail(plugins))
              ELSE community_plugins(idx, Tail(plugins))

\* the result of a call and the index it leaves
Fetched(ret, cache, reverse, last) ==
    [ret |-> ret, cache |-> cache, reverse |-> reverse, last |-> last]

\* fetch_and_cache_index(force_refresh) when the index url serves `main` and
\* the custom repositories serve `replies`
fetch(force_refresh, main, replies) ==
    IF ~force_refresh /\ clock - _index_last_updated < _index_cache_duration
      THEN Fetched(TRUE, _index_cache, _reverse_index, _index_last_updated)
    ELSE IF main.status \in {"timeout", "unreachable", "malformed"}
      THEN Fetched(FALSE, _index_cache, _reverse_index, _index_last_updated)
    ELSE IF main.status = "array"
      THEN Fetched(FALSE, <<>>, <<>>, _index_last_updated)
    ELSE LET idx == community_plugins(
                      custom_repositories(
                        main_items(Index(<<>>, <<>>), main.items,
                                   _disabled_repositories),
                        _custom_repositories, replies, _disabled_repositories),
                      _community_plugins)
         IN Fetched(TRUE, idx.cache, idx.reverse, clock)

\* what a call of the part leaves in `reply`: the operation, what it was
\* given and what it returned
Call(op, arg, ret) == <<op, arg, ret>>
reply_op == reply[1]
reply_arg == reply[2]
reply_ret == reply[3]

\* the variables of the registry and of the plugins on disk
rvars == <<_nodes, _loaded_plugins, plugin_modules, plugin_loaders, disk>>

\* await plugin_manager.fetch_and_cache_index(force_refresh)
fetch_and_cache_index ==
    \E force_refresh \in BOOLEAN, main \in Replies(MaxEntries),
       replies \in {l \in Lists(RepositoryReplies(MaxEntries),
                                  Len(_custom_repositories)) :
                       Len(l) = Len(_custom_repositories)} :
        LET r == fetch(force_refresh, main, replies)
        IN /\ _index_cache' = r.cache
           /\ _reverse_index' = r.reverse
           /\ _index_last_updated' = r.last
           /\ reply' = Call("fetch_and_cache_index", force_refresh, r.ret)
           /\ UNCHANGED <<_custom_repositories, _disabled_repositories, clock>>
           /\ UNCHANGED rvars
           /\ UNCHANGED <<qvars, gvars, mvars, kvars>>

\* the index cache expires
tick ==
    /\ clock < (MaxTicks + 1) * _index_cache_duration
    /\ clock' = clock + _index_cache_duration
    /\ UNCHANGED <<_custom_repositories, _disabled_repositories, _index_cache,
                   _reverse_index, _index_last_updated, reply>>
    /\ UNCHANGED rvars
    /\ UNCHANGED <<qvars, gvars, mvars, kvars>>

\* list.remove(x)
RECURSIVE Remove(_, _)
Remove(s, x) ==
    IF s = <<>> THEN <<>>
    ELSE IF Head(s) = x THEN Tail(s)
    ELSE <<Head(s)>> \o Remove(Tail(s), x)

\* add_custom_repository(repo_url)
add_custom_repository ==
    \E repo_url \in Repositories :
        /\ IF repo_url \in SeqToSet(_custom_repositories)
             THEN /\ reply' = Call("add_custom_repository", repo_url, FALSE)
                  /\ UNCHANGED _custom_repositories
             ELSE /\ _custom_repositories' = Append(_custom_repositories, repo_url)
                  /\ reply' = Call("add_custom_repository", repo_url, TRUE)
        /\ UNCHANGED <<_disabled_repositories, _index_cache, _reverse_index,
                       _index_last_updated, clock>>
        /\ UNCHANGED rvars
        /\ UNCHANGED <<qvars, gvars, mvars, kvars>>

\* remove_custom_repository(repo_url)
remove_custom_repository ==
    \E repo_url \in Repositories :
        /\ IF repo_url \notin SeqToSet(_custom_repositories)
             THEN /\ reply' = Call("remove_custom_repository", repo_url, FALSE)
                  /\ UNCHANGED _custom_repositories
             ELSE /\ _custom_repositories' = Remove(_custom_repositories, repo_url)
                  /\ reply' = Call("remove_custom_repository", repo_url, TRUE)
        /\ UNCHANGED <<_disabled_repositories, _index_cache, _reverse_index,
                       _index_last_updated, clock>>
        /\ UNCHANGED rvars
        /\ UNCHANGED <<qvars, gvars, mvars, kvars>>

\* disable_repository(repo_url)
disable_repository ==
    \E repo_url \in Repositories :
        /\ IF repo_url \in _disabled_repositories
             THEN /\ reply' = Call("disable_repository", repo_url, FALSE)
                  /\ UNCHANGED <<_custom_repositories, _disabled_repositories,
                                 _index_cache, _reverse_index, _index_last_updated>>
             ELSE /\ _custom_repositories' = Remove(_custom_repositories, repo_url)
                  /\ _disabled_repositories' = _disabled_repositories \cup {repo_url}
                  /\ _index_cache' = <<>>
                  /\ _reverse_index' = <<>>
                  /\ _index_last_updated' = 0
                  /\ reply' = Call("disable_repository", repo_url, TRUE)
        /\ UNCHANGED clock
        /\ UNCHANGED rvars
        /\ UNCHANGED <<qvars, gvars, mvars, kvars>>

\* enable_repository(repo_url)
enable_repository ==
    \E repo_url \in Repositories :
        /\ IF repo_url \notin _disabled_repositories
             THEN /\ reply' = Call("enable_repository", repo_url, FALSE)
                  /\ UNCHANGED <<_custom_repositories, _disabled_repositories,
                                 _index_cache, _reverse_index, _index_last_updated>>
             ELSE /\ _disabled_repositories' = _disabled_repositories \ {repo_url}
                  /\ _custom_repositories' =
                        IF repo_url \in SeqToSet(_custom_repositories)
                          THEN _custom_repositories
                          ELSE Append(_custom_repositories, repo_url)
                  /\ _index_cache' = <<>>
                  /\ _reverse_index' = <<>>
                  /\ _index_last_updated' = 0
                  /\ reply' = Call("enable_repository", repo_url, TRUE)
        /\ UNCHANGED clock
        /\ UNCHANGED rvars
        /\ UNCHANGED <<qvars, gvars, mvars, kvars>>

\* find_plugin_by_node_id(node_id)
find_plugin_by_node_id(node_id) ==
    IF node_id \in DOMAIN _reverse_index THEN _reverse_index[node_id] ELSE None

\* plugin_manager.find_plugin_by_node_id(node_id)
call_find_plugin_by_node_id ==
    \E node_id \in NodeNames :
        /\ reply' = Call("find_plugin_by_node_id", node_id,
                         find_plugin_by_node_id(node_id))
        /\ UNCHANGED <<_custom_repositories, _disabled_repositories, _index_cache,
                       _reverse_index, _index_last_updated, clock>>
        /\ UNCHANGED rvars
        /\ UNCHANGED <<qvars, gvars, mvars, kvars>>

\* ---------------------------------------------------------- NodeRegistry
\* the "type" a workflow node carries: a type name, the empty string, or no
\* "type" key at all (node.get("type") is None)
WorkflowTypes == TypeNames \cup {"", None}

\* the workflow documents: {"nodes": [{"type": ...}, ...]}
Workflows(n) == {[nodes |-> w] : w \in Lists([type : WorkflowTypes], n)}

\* validate_workflow: the loop over workflow["nodes"]
RECURSIVE missing_nodes(_, _, _)
missing_nodes(nodes, registered, missing) ==
    IF nodes = <<>> THEN missing
    ELSE LET node_type == Head(nodes).type
         IN IF /\ node_type \notin {None, ""}
               /\ node_type \notin registered
               /\ node_type \notin SeqToSet(missing)
              THEN missing_nodes(Tail(nodes), registered, Append(missing, node_type))
              ELSE missing_nodes(Tail(nodes), registered, missing)

\* NodeRegistry.validate_workflow(workflow) on a registry holding `registered`
validate_workflow(registered, workflow) ==
    missing_nodes(workflow.nodes, registered, <<>>)

\* the variables of the plugin index
ivars == <<_custom_repositories, _disabled_repositories, _index_cache,
           _reverse_index, _index_last_updated, clock>>

\* register_node(name=...) on a node function or class
register_node ==
    \E name \in TypeNames :
        /\ _nodes' = _nodes \cup {name}
        /\ reply' = Call("register_node", name, None)
        /\ UNCHANGED <<_loaded_plugins, plugin_modules, plugin_loaders, disk>>
        /\ UNCHANGED ivars
        /\ UNCHANGED <<qvars, gvars, mvars, kvars>>

\* remove_node(node_type)
remove_node ==
    \E node_type \in TypeNames :
        /\ _nodes' = _nodes \ {node_type}
        /\ reply' = Call("remove_node", node_type, TRUE)
        /\ UNCHANGED <<_loaded_plugins, plugin_modules, plugin_loaders, disk>>
        /\ UNCHANGED ivars
        /\ UNCHANGED <<qvars, gvars, mvars, kvars>>

\* clear_all_nodes()
clear_all_nodes ==
    /\ _nodes' = {}
    /\ reply' = Call("clear_all_nodes", None, Cardinality(_nodes))
    /\ UNCHANGED <<_loaded_plugins, plugin_modules, plugin_loaders, disk>>
    /\ UNCHANGED ivars
    /\ UNCHANGED <<qvars, gvars, mvars, kvars>>

\* WorkflowValidator.validate(workflow)
validate ==
    \E workflow \in Workflows(MaxWorkflowNodes) :
        /\ reply' = Call("validate", workflow, validate_workflow(_nodes, workflow))
        /\ UNCHANGED rvars
        /\ UNCHANGED ivars
        /\ UNCHANGED <<qvars, gvars, mvars, kvars>>

\* ------------------------------------------- PluginManager: the plugins
\* install_plugin: plugin_name = git_url.split("/")[-1].replace(".git", "")
plugin_name(git_url) ==
    CASE git_url = PackA -> "PackA"
      [] git_url = PackB -> "PackB"
      [] git_url = _community_plugins[1].git_url -> "WAS-Suite"
      [] git_url = _community_plugins[2].git_url -> "MyCustomLoader"

\* What the machine, the network and the repository give one call of
\* install_plugin or load_plugin.
\*   comfyui:  the temporary clone succeeded and its __init__.py names
\*             NODE_CLASS_MAPPINGS or NODE_DISPLAY_NAME_MAPPINGS;
\*   cloned:   git is there, a plugin directory is there and `git clone`
\*             into a path that does not exist yet succeeds;
\*   imported: the plugin's module has METADATA and a Module subclass, and
\*             its import registers the node types the index lists for it.
Environments == [comfyui : BOOLEAN, cloned : BOOLEAN, imported : BOOLEAN]

\* the registry and the plugins on disk, as install_plugin changes them
Installation(nodes, loaders, dirs) ==
    [nodes |-> nodes, loaders |-> loaders, disk |-> dirs]

\* the node types the reverse index lists for a git url
provided(reverse, git_url) == {n \in DOMAIN reverse : reverse[n] = git_url}

\* install_plugin(git_url).  `git clone` refuses a destination path that
\* exists, which is the CalledProcessError of the two clone calls;
\* discover_plugins imports the plugin just cloned (the plugins found
\* there before were imported by the call that cloned them).
install(st, reverse, git_url, env) ==
    LET name == plugin_name(git_url)
        path == IF env.comfyui THEN <<"custom_nodes", name>>
                ELSE <<"plugins", name>>
    IN IF ~env.cloned \/ path \in st.disk
         THEN [ret |-> FALSE, st |-> st]
       ELSE IF env.comfyui \/ ~env.imported
         THEN [ret |-> TRUE, st |-> [st EXCEPT !.disk = @ \cup {path}]]
       ELSE [ret |-> TRUE,
             st |-> Installation(st.nodes \cup provided(reverse, git_url),
                                 st.loaders \cup {name},
                                 st.disk \cup {path})]

\* await plugin_manager.install_plugin(git_url)
install_plugin ==
    \E git_url \in IndexedUrls, env \in Environments :
        LET r == install(Installation(_nodes, plugin_loaders, disk),
                         _reverse_index, git_url, env)
        IN /\ _nodes' = r.st.nodes
           /\ plugin_loaders' = r.st.loaders
           /\ disk' = r.st.disk
           /\ reply' = Call("install_plugin", git_url, r.ret)
           /\ UNCHANGED <<_loaded_plugins, plugin_modules>>
           /\ UNCHANGED ivars
           /\ UNCHANGED <<qvars, gvars, mvars, kvars>>

\* await plugin_manager.load_plugin(plugin_path) for a directory on disk:
\* _load_plugin_metadata imports the plugin and registers its loader, then
\* activate_module(plugin_id) returns True (the record is ACTIVATED) or
\* False (the record is FAILED)
load_plugin ==
    \E plugin_path \in disk, git_url \in IndexedUrls,
       imported, activated \in BOOLEAN :
        LET plugin_id == plugin_path[2]
        IN /\ plugin_id = plugin_name(git_url)
           /\ IF ~imported
                THEN /\ reply' = Call("load_plugin", plugin_path, None)
                     /\ UNCHANGED <<_nodes, plugin_loaders, plugin_modules,
                                    _loaded_plugins>>
                ELSE /\ _nodes' = _nodes \cup provided(_reverse_index, git_url)
                     /\ plugin_loaders' = plugin_loaders \cup {plugin_id}
                     /\ plugin_modules' =
                           Put(plugin_modules, plugin_id,
                               IF activated THEN ACTIVATED ELSE FAILED)
                     /\ _loaded_plugins' =
                           IF activated
                             THEN Put(_loaded_plugins, plugin_id, plugin_path)
                             ELSE _loaded_plugins
                     /\ reply' = Call("load_plugin", plugin_path,
                                      IF activated THEN plugin_id ELSE None)
           /\ UNCHANGED disk
           /\ UNCHANGED ivars
           /\ UNCHANGED <<qvars, gvars, mvars, kvars>>

\* del d[k]
Del(d, k) == [x \in DOMAIN d \ {k} |-> d[x]]

\* await plugin_manager.uninstall_plugin(plugin_id): a plugin that is not
\* loaded is refused; else unload_plugin, then shutil.rmtree(plugin_path),
\* which may raise
uninstall_plugin ==
    \E git_url \in IndexedUrls, removed \in BOOLEAN :
        LET plugin_id == plugin_name(git_url)
        IN /\ IF plugin_id \notin DOMAIN _loaded_plugins
                THEN /\ reply' = Call("uninstall_plugin", plugin_id, FALSE)
                     /\ UNCHANGED <<_loaded_plugins, plugin_modules, disk>>
                ELSE /\ _loaded_plugins' = Del(_loaded_plugins, plugin_id)
                     /\ plugin_modules' = Del(plugin_modules, plugin_id)
                     /\ disk' = IF removed
                                  THEN disk \ {_loaded_plugins[plugin_id]}
                                  ELSE disk
                     /\ reply' = Call("uninstall_plugin", plugin_id, removed)
           /\ UNCHANGED <<_nodes, plugin_loaders>>
           /\ UNCHANGED ivars
           /\ UNCHANGED <<qvars, gvars, mvars, kvars>>

\* find_plugin_for_node: the loop `for git_url, nodes in index_data.items()`
\* of the synchronous load.  `for node in nodes` takes the elements of the
\* value itself: the names of a plain list, and for [[names], {...}] the
\* list of names, which is not hashable (raised: TypeError).
RECURSIVE sync_items(_, _, _)
sync_items(reverse, items, disabled) ==
    IF items = <<>> THEN [reverse |-> reverse, raised |-> FALSE]
    ELSE LET git_url == Head(items).git_url
             nodes == Head(items).plugin_info
         IN IF git_url \in disabled
              THEN sync_items(reverse, Tail(items), disabled)
            ELSE IF nodes.shape = "nested"
              THEN [reverse |-> reverse, raised |-> TRUE]
            ELSE sync_items(PutAll(reverse, nodes.nodes, git_url),
                            Tail(items), disabled)

\* find_plugin_for_node: the loop over self._custom_repositories
RECURSIVE sync_repositories(_, _, _, _)
sync_repositories(reverse, repos, replies, disabled) ==
    IF repos = <<>> THEN reverse
    ELSE LET rest(r) == sync_repositories(r, Tail(repos), Tail(replies), disabled)
         IN IF Head(repos) \in disabled THEN rest(reverse)
            ELSE IF Head(replies).status # "object" THEN rest(reverse)
            ELSE rest(sync_items(reverse, Head(replies).items, disabled).reverse)

\* the index as find_plugin_for_node sees and leaves it
Lookup(ret, reverse) == [ret |-> ret, reverse |-> reverse]

\* self._reverse_index.get(node_type)
get(reverse, node_type) ==
    IF node_type \in DOMAIN reverse THEN reverse[node_type] ELSE None

\* find_plugin_for_node(node_type) when the index url serves `main` and the
\* custom repositories serve `replies`
find_plugin_for_node(reverse, cache, repos, disabled, node_type, main, replies) ==
    IF reverse = <<>> /\ cache = <<>>
      THEN IF main.status # "object" THEN Lookup(None, reverse)
           ELSE LET m == sync_items(reverse, main.items, disabled)
                IN IF m.raised THEN Lookup(None, m.reverse)
                   ELSE LET r == sync_repositories(m.reverse, repos, replies,
                                                   disabled)
                        IN Lookup(get(r, node_type), r)
      ELSE Lookup(get(reverse, node_type), reverse)

\* get_missing_nodes_plugins(missing_nodes): the result dict as its items
\* in insertion order
RECURSIVE get_missing_nodes_plugins(_, _, _, _, _, _, _, _)
get_missing_nodes_plugins(result, reverse, cache, repos, disabled, missing, main, replies) ==
    IF missing = <<>> THEN Lookup(result, reverse)
    ELSE LET l == find_plugin_for_node(reverse, cache, repos, disabled,
                                       Head(missing), main, replies)
         IN get_missing_nodes_plugins(
                IF l.ret # None
                  THEN Append(result, [node_type |-> Head(missing),
                                       git_url |-> l.ret])
                  ELSE result,
                l.reverse, cache, repos, disabled, Tail(missing), main, replies)

\* install_missing_nodes: the loop over missing_nodes_plugins.items()
RECURSIVE install_all(_, _, _, _, _)
install_all(installed, st, reverse, plugins, envs) ==
    IF plugins = <<>> THEN [results |-> installed, st |-> st]
    ELSE LET r == install(st, reverse, Head(plugins).git_url, Head(envs))
         IN install_all(Append(installed, [node_type |-> Head(plugins).node_type,
                                         git_url |-> Head(plugins).git_url,
                                         success |-> r.ret]),
                        r.st, reverse, Tail(plugins), Tail(envs))

\* the response of install_missing_nodes
Response(status, missing, installed) ==
    [status |-> status, missing_nodes |-> missing, results |-> installed]

\* the workflows whose nodes all name a type
TypedWorkflows(n) ==
    {w \in Workflows(n) : \A i \in DOMAIN w.nodes : w.nodes[i].type \in TypeNames}

\* POST /api/plugins/install_missing_nodes
install_missing_nodes ==
    \E workflow \in TypedWorkflows(MaxWorkflowNodes) :
        /\ LET missing == validate_workflow(_nodes, workflow)
           IN IF missing = <<>>
                THEN /\ reply' = Call("install_missing_nodes", workflow,
                                      Response("success", missing, <<>>))
                     /\ UNCHANGED <<_nodes, plugin_loaders, disk, _reverse_index>>
                ELSE \E main \in IF _reverse_index = <<>> /\ _index_cache = <<>>
                                   THEN Replies(MaxEntries)
                                   ELSE {[status |-> "timeout", items |-> <<>>]} :
                       LET p == get_missing_nodes_plugins(
                                   <<>>, _reverse_index, _index_cache,
                                   _custom_repositories, _disabled_repositories,
                                   missing, main,
                                   [i \in DOMAIN _custom_repositories |-> main])
                       IN IF p.ret = <<>>
                            THEN /\ reply' = Call("install_missing_nodes", workflow,
                                                  Response("error", missing, <<>>))
                                 /\ _reverse_index' = p.reverse
                                 /\ UNCHANGED <<_nodes, plugin_loaders, disk>>
                            ELSE \E envs \in {l \in Lists(Environments, Len(p.ret)) :
                                                 Len(l) = Len(p.ret)} :
                                   LET r == install_all(
                                               <<>>,
                                               Installation(_nodes, plugin_loaders,
                                                            disk),
                                               p.reverse, p.ret, envs)
                                   IN /\ _nodes' = r.st.nodes
                                      /\ plugin_loaders' = r.st.loaders
                                      /\ disk' = r.st.disk
                                      /\ _reverse_index' = p.reverse
                                      /\ reply' = Call("install_missing_nodes",
                                                       workflow,
                                                       Response("success", missing,
                                                                r.results))
        /\ UNCHANGED <<_loaded_plugins, plugin_modules>>
        /\ UNCHANGED <<_custom_repositories, _disabled_repositories, _index_cache,
                       _index_last_updated, clock>>
        /\ UNCHANGED <<qvars, gvars, mvars, kvars>>

\* NodeRegistry() and PluginManager() before any call
PluginsIdle ==
    /\ _nodes = {}
    /\ _custom_repositories = <<>>
    /\ _disabled_repositories = {}
    /\ _index_cache = <<>>
    /\ _reverse_index = <<>>
    /\ _index_last_updated = 0
    /\ clock = _index_cache_duration
    /\ _loaded_plugins = <<>>
    /\ plugin_modules = <<>>
    /\ plugin_loaders = {}
    /\ disk = {}
    /\ reply = Call("__init__", None, None)

\* the state of the variables of Parts 4 to 7 while they are not exercised
PIdle == PluginsIdle /\ KIdle

\* =================================================================
\* Part 5: GraphParser._parse_workflow_def (core/graph_parser.py)
\* =================================================================
MaxDocNodes == 2
MaxDocEdges == 2

\* The workflow documents parsed: 'nodes' and 'edges' in their list form.
\* A node entry has an id; an edge entry has an id, a source and a target,
\* either of which may name a node the document does not list, and it has
\* its source_output and target_input keys or lacks them.
WorkflowDefs(n, m) ==
    [nodes : Lists(1..n, n),
     edges : Lists([id : 1..m, source : 1..(n + 1), target : 1..(n + 1),
                    complete : BOOLEAN], m)]

\* Graph.add_node: self.nodes[node.id] = node, on the ids in dict order
add_node(nodes, id) ==
    IF id \in SeqToSet(nodes) THEN nodes ELSE Append(nodes, id)

\* Graph.add_edge: self.edges[edge.id] = edge, on the edges in dict order
add_edge(edges, edge) ==
    IF \E i \in DOMAIN edges : edges[i].id = edge.id
      THEN [i \in DOMAIN edges |-> IF edges[i].id = edge.id THEN edge ELSE edges[i]]
    ELSE Append(edges, edge)

\* _parse_workflow_def: the loop over nodes_data
RECURSIVE parse_nodes(_, _)
parse_nodes(nodes_data, nodes) ==
    IF nodes_data = <<>> THEN nodes
    ELSE parse_nodes(Tail(nodes_data), add_node(nodes, Head(nodes_data)))

\* _parse_workflow_def: the loop over edges_data; edge_data['source_output']
\* raises KeyError for an entry without that key
RECURSIVE parse_edges(_, _)
parse_edges(edges_data, edges) ==
    IF edges_data = <<>> THEN [raised |-> FALSE, edges |-> edges]
    ELSE IF ~Head(edges_data).complete THEN [raised |-> TRUE, edges |-> edges]
    ELSE parse_edges(Tail(edges_data),
                     add_edge(edges, [id |-> Head(edges_data).id,
                                      source |-> Head(edges_data).source,
                                      target |-> Head(edges_data).target]))

\* GraphParser._parse_workflow_def: [raised |-> an exception leaves the
\* call, graph |-> the Graph returned]
_parse_workflow_def(workflow_def) ==
    LET nodes == parse_nodes(workflow_def.nodes, <<>>)
        r == parse_edges(workflow_def.edges, <<>>)
    IN [raised |-> r.raised,
        graph |-> IF r.raised THEN [nodes |-> <<>>, edges |-> <<>>]
                  ELSE [nodes |-> nodes,
                        edges |-> [i \in DOMAIN r.edges |->
                                     <<r.edges[i].source, r.edges[i].target>>]]]

\* a call of parse_graph(workflow_def) that has not run yet
ParserInit ==
    \E workflow_def \in WorkflowDefs(MaxDocNodes, MaxDocEdges) :
        reply = Call("call parse_graph", workflow_def, None)

\* parse_graph(workflow_def)
parse_graph ==
    /\ reply_op = "call parse_graph"
    /\ reply' = Call("parse_graph", reply_arg, _parse_workflow_def(reply_arg))
    /\ UNCHANGED rvars
    /\ UNCHANGED ivars
    /\ UNCHANGED <<qvars, gvars, mvars, kvars>>

\* =================================================================
\* Part 6: ModelCacheManager (core/model_cache_manager.py)
\* =================================================================
\* Every method body is a `with self._lock:` block, and self._lock is a
\* threading.Lock: acquire() blocks while the lock is taken, whoever took
\* it.  A thread is a stack of frames; the top frame is at "lock" (in
\* acquire()), "held" (the lock was taken, the body has not run), "call"
\* (it awaits the frame above) or "resume" (the frame above returned
\* `got`).  Values are written as numbers: None and False are 0, True is 1
\* and a model key is itself.

\* the module-level instance: ModelCacheManager(max_cache_size=3, ...)
max_cache_size == 3

\* _is_memory_full(): _get_memory_usage() is empty without a CUDA device
_is_memory_full == FALSE

CacheFrame(op, key) ==
    [op |-> op, key |-> key, pc |-> "lock", keys |-> <<>>, n |-> 0, got |-> 0]

\* the state a thread's run works on
Machine(t) ==
    [cache |-> _cache, order |-> _access_order, lock |-> _lock,
     stk |-> threads[t], reply |-> reply]

\* the top frame calls self.<op>(key) and awaits it
Invoke(S, f, op, key) ==
    [S EXCEPT !.stk = SubSeq(@, 1, Len(@) - 1)
                        \o <<[f EXCEPT !.pc = "call"], CacheFrame(op, key)>>]

\* the top frame leaves its with block and returns v
Leave(S, v) ==
    LET f == S.stk[Len(S.stk)]
        rest == SubSeq(S.stk, 1, Len(S.stk) - 1)
    IN IF rest = <<>>
         THEN [S EXCEPT !.lock = 0, !.stk = <<>>, !.reply = Call(f.op, f.key, v)]
         ELSE [S EXCEPT !.lock = 0,
                        !.stk = SubSeq(rest, 1, Len(rest) - 1)
                                  \o <<[rest[Len(rest)] EXCEPT !.pc = "resume", !.got = v]>>]

\* _update_access_time(model_key)
_update_access_time(S, f) ==
    Leave([S EXCEPT !.order = Append(Remove(@, f.key), f.key)], 0)

\* _evict_oldest_model()
_evict_oldest_model(S, f) ==
    IF S.order = <<>> THEN Leave(S, 0)
    ELSE LET oldest_key == Head(S.order)
             S1 == [S EXCEPT !.order = Tail(@)]
         IN IF oldest_key \in S.cache
              THEN Leave([S1 EXCEPT !.cache = @ \ {oldest_key}], oldest_key)
              ELSE Leave(S1, 0)

\* get_model(model_key)
get_model(S, f) ==
    IF f.pc = "held"
      THEN IF f.key \in S.cache
             THEN Invoke(S, f, "_update_access_time", f.key)
             ELSE Leave(S, 0)
      ELSE Leave(S, f.key)

\* add_model: the while loop, then the insertion
add_model_loop(S, f) ==
    IF Cardinality(S.cache) >= max_cache_size \/ _is_memory_full
      THEN Invoke(S, [f EXCEPT !.n = 0], "_evict_oldest_model", 0)
      ELSE Invoke([S EXCEPT !.cache = @ \cup {f.key}], [f EXCEPT !.n = 1],
                  "_update_access_time", f.key)

\* add_model(model_key, model); n tells which call the frame awaits
add_model(S, f) ==
    IF f.pc = "held" THEN add_model_loop(S, f)
    ELSE IF f.n = 1 THEN Leave(S, 1)
    ELSE IF f.got = 0 THEN Leave(S, 0)
    ELSE add_model_loop(S, f)

\* remove_model(model_key)
remove_model(S, f) ==
    IF f.key \in S.cache
      THEN Leave([S EXCEPT !.cache = @ \ {f.key},
                           !.order = Remove(@, f.key)], 1)
      ELSE Leave(S, 0)

\* clear_cache: the loop over list(self._cache.keys()), then the clear
clear_cache_loop(S, f) ==
    IF f.keys = <<>>
      THEN Leave([S EXCEPT !.order = <<>>], f.n)
      ELSE Invoke(S, [f EXCEPT !.keys = Tail(@)], "remove_model", Head(f.keys))

\* clear_cache(); n is cleared_count
clear_cache(S, f) ==
    IF f.pc = "held"
      THEN clear_cache_loop(S, [f EXCEPT !.keys = SetToSeq(S.cache), !.n = 0])
      ELSE clear_cache_loop(S, [f EXCEPT !.n = @ + f.got])

\* the body of the method of the top frame, up to its next call or return
Body(S) ==
    LET f == S.stk[Len(S.stk)]
    IN CASE f.op = "get_model" -> get_model(S, f)
         [] f.op = "add_model" -> add_model(S, f)
         [] f.op = "remove_model" -> remove_model(S, f)
         [] f.op = "clear_cache" -> clear_cache(S, f)
         [] f.op = "_update_access_time" -> _update_access_time(S, f)
         [] f.op = "_evict_oldest_model" -> _evict_oldest_model(S, f)

\* the run of thread t becomes the state
CommitThread(t, S) ==
    /\ _cache' = S.cache
    /\ _access_order' = S.order
    /\ _lock' = S.lock
    /\ threads' = [threads EXCEPT ![t] = S.stk]
    /\ reply' = S.reply
    /\ UNCHANGED dvars
    /\ UNCHANGED rvars
    /\ UNCHANGED ivars
    /\ UNCHANGED <<qvars, gvars, mvars>>

\* thread t calls a method of the manager and arrives at its with block
Arrive(t, op, key) == [Machine(t) EXCEPT !.stk = <<CacheFrame(op, key)>>]

call_get_model(t) ==
    /\ threads[t] = <<>>
    /\ \E key \in Keys : CommitThread(t, Arrive(t, "get_model", key))

call_add_model(t) ==
    /\ threads[t] = <<>>
    /\ \E key \in Keys : CommitThread(t, Arrive(t, "add_model", key))

call_remove_model(t) ==
    /\ threads[t] = <<>>
    /\ \E key \in Keys : CommitThread(t, Arrive(t, "remove_model", key))

call_clear_cache(t) ==
    /\ threads[t] = <<>>
    /\ CommitThread(t, Arrive(t, "clear_cache", 0))

\* Lock.acquire() of the frame of thread t that waits for the lock returns
acquire(t) ==
    /\ threads[t] # <<>>
    /\ threads[t][Len(threads[t])].pc = "lock"
    /\ _lock = 0
    /\ CommitThread(t, [Machine(t) EXCEPT !.lock = t,
                                          !.stk[Len(threads[t])].pc = "held"])

\* thread t runs the body of its top frame
run(t) ==
    /\ threads[t] # <<>>
    /\ threads[t][Len(threads[t])].pc \in {"held", "resume"}
    /\ CommitThread(t, Body(Machine(t)))

\* =================================================================
\* Part 7: DataStore (core/datastore)
\* =================================================================
\* The values stored; None is a value a caller may store
Values == {None, "x", "y"}

\* MemoryStorage.get: dict.get(key)
storage_get(s, key) == IF key \in DOMAIN s THEN s[key] ELSE None

\* MemoryStorage.set
storage_set(s, key, value) ==
    [x \in DOMAIN s \cup {key} |-> IF x = key THEN value ELSE s[x]]

\* MemoryStorage.delete: the storage afterwards
storage_delete(s, key) == [x \in DOMAIN s \ {key} |-> s[x]]

\* `key in self.cache` of the OrderedDict c
HasKey(c, key) == \E i \in DOMAIN c : c[i][1] = key

\* self.cache[key] of the OrderedDict c
ValueOf(c, key) == c[CHOOSE i \in DOMAIN c : c[i][1] = key][2]

\* del self.cache[key]
DelKey(c, key) == SelectSeq(c, LAMBDA e : e[1] # key)

\* OrderedDict.move_to_end(key)
move_to_end(c, key) == Append(DelKey(c, key), <<key, ValueOf(c, key)>>)

\* self.cache[key] = value: a key already present keeps its place
SetKey(c, key, value) ==
    IF HasKey(c, key)
      THEN [i \in DOMAIN c |-> IF c[i][1] = key THEN <<key, value>> ELSE c[i]]
      ELSE Append(c, <<key, value>>)

\* LRUCacheStrategy.get: the cache afterwards and the value returned
lru_get(c, key) ==
    IF HasKey(c, key)
      THEN [cache |-> move_to_end(c, key), value |-> ValueOf(c, key)]
      ELSE [cache |-> c, value |-> None]

\* LRUCacheStrategy.set; popitem(last=False) drops the first entry
lru_set(c, key, value, capacity) ==
    SetKey(IF HasKey(c, key) THEN move_to_end(c, key)
           ELSE IF Len(c) >= capacity THEN Tail(c)
           ELSE c,
           key, value)

\* LRUCacheStrategy.delete that leaves the entry in the cache
lru_delete_keeps(c, key) == c

\* LRUCacheStrategy.delete
lru_delete(c, key) == IF HasKey(c, key) THEN DelKey(c, key) ELSE c

\* DataStore(DataStoreConfig(cache_size = n)) with a positive cache size
DataStoreInit ==
    /\ storage = <<>>
    /\ lru_cache = <<>>
    /\ cache_size \in 1..MaxCacheSize

\* DataStore.get(key)
datastore_get ==
    \E key \in Keys :
        /\ LET hit == lru_get(lru_cache, key)
               value == storage_get(storage, key)
           IN IF hit.value # None
                THEN /\ lru_cache' = hit.cache
                     /\ reply' = Call("get", key, hit.value)
                ELSE /\ lru_cache' = IF value # None
                                       THEN lru_set(hit.cache, key, value, cache_size)
                                       ELSE hit.cache
                     /\ reply' = Call("get", key, value)
        /\ UNCHANGED <<storage, cache_size>>
        /\ UNCHANGED cvars
        /\ UNCHANGED rvars
        /\ UNCHANGED ivars
        /\ UNCHANGED <<qvars, gvars, mvars>>

\* DataStore.set(key, value): MemoryStorage.set returns True
datastore_set ==
    \E key \in Keys : \E value \in Values :
        /\ storage' = storage_set(storage, key, value)
        /\ lru_cache' = lru_set(lru_cache, key, value, cache_size)
        /\ reply' = Call("set", key, TRUE)
        /\ UNCHANGED cache_size
        /\ UNCHANGED cvars
        /\ UNCHANGED rvars
        /\ UNCHANGED ivars
        /\ UNCHANGED <<qvars, gvars, mvars>>

\* DataStore.delete(key)
datastore_delete ==
    \E key \in Keys :
        /\ storage' = storage_delete(storage, key)
        /\ lru_cache' = IF key \in DOMAIN storage
                          THEN lru_delete(lru_cache, key)
                          ELSE lru_cache
        /\ reply' = Call("delete", key, key \in DOMAIN storage)
        /\ UNCHANGED cache_size
        /\ UNCHANGED cvars
        /\ UNCHANGED rvars
        /\ UNCHANGED ivars
        /\ UNCHANGED <<qvars, gvars, mvars>>

\* DataStore.exists(key)
datastore_exists ==
    \E key \in Keys :
        /\ LET hit == lru_get(lru_cache, key)
           IN /\ lru_cache' = hit.cache
              /\ reply' = Call("exists", key,
                               hit.value # None \/ key \in DOMAIN storage)
        /\ UNCHANGED <<storage, cache_size>>
        /\ UNCHANGED cvars
        /\ UNCHANGED rvars
        /\ UNCHANGED ivars
        /\ UNCHANGED <<qvars, gvars, mvars>>

\* DataStore.clear()
datastore_clear ==
    /\ storage' = <<>>
    /\ lru_cache' = <<>>
    /\ reply' = Call("clear", None, TRUE)
    /\ UNCHANGED cache_size
    /\ UNCHANGED cvars
    /\ UNCHANGED rvars
    /\ UNCHANGED ivars
    /\ UNCHANGED <<qvars, gvars, mvars>>

vars == <<qvars, gvars, mvars, pvars, kvars>>

Init == QInit /\ GIdle /\ MIdle /\ PIdle

\* One run of the queue: tasks are added, also under an id already
\* present, start() is called, the workers run; stop() is not called.
NextRun ==
    \/ \E t \in TaskIds : add_task(t, 0)
    \/ start
    \/ \E w \in WorkerIds : worker_pop(w)
    \/ \E w \in WorkerIds : task_returns(w)
    \/ \E w \in WorkerIds : task_raises(w)
    \/ \E w \in WorkerIds : task_completed(w)
    \/ \E w \in WorkerIds : task_failed(w)

SpecRun == Init /\ [][NextRun]_vars

\* The life cycle of the queue: stop() and a later start(), with every
\* task id added once.
Next ==
    \/ \E t \in TaskIds \ DOMAIN tasks : add_task(t, 0)
    \/ start
    \/ stop
    \/ \E w \in WorkerIds : worker_pop(w)
    \/ \E w \in WorkerIds : task_returns(w)
    \/ \E w \in WorkerIds : task_raises(w)
    \/ \E w \in WorkerIds : task_completed(w)
    \/ \E w \in WorkerIds : task_failed(w)

Spec == Init /\ [][Next]_vars

\* The submission of one workflow graph, to GraphExecutor.execute_graph or
\* to TaskQueueManager.add_workflow (on a new ExecutionQueue).
GraphInit == plan = ChainDeps /\ QNew /\ GInit /\ MIdle /\ PIdle

GraphNext ==
    \/ add_workflow
    \/ execute_graph
    \/ execute_node
    \/ execute_graph_returns
    \/ rollback_node
    \/ execute_graph_raises

SpecGraph == GraphInit /\ [][GraphNext]_vars

\* One call of execute_graph or execute_graph_async
ExecutorNext ==
    \/ execute_graph
    \/ execute_graph_async
    \/ execute_node
    \/ execute_graph_returns
    \/ rollback_node
    \/ execute_graph_raises

ExecutorGraphInit == plan = ChainDeps /\ QNew /\ ExecutorInit /\ MIdle /\ PIdle

SpecExecutor == ExecutorGraphInit /\ [][ExecutorNext]_vars

\* The module manager of one installation under up to MaxCalls concurrent
\* callers of load_module, activate_module and deactivate_module.
ModulesInit == plan = ChainDeps /\ QNew /\ GIdle /\ MInit /\ PIdle

ModulesNext ==
    \/ \E c \in CallIds : call_load_module(c)
    \/ \E c \in CallIds : call_activate_module(c)
    \/ \E c \in CallIds : call_deactivate_module(c)
    \/ \E c \in CallIds : loader_returns(c)
    \/ \E c \in CallIds : loader_raises(c)
    \/ \E c \in CallIds : retry_delay_elapsed(c)
    \/ \E c \in CallIds : wait_returns(c)
    \/ \E c \in CallIds : wait_times_out(c)
    \/ \E c \in CallIds : activate_returns(c)
    \/ \E c \in CallIds : activate_raises(c)
    \/ \E c \in CallIds : deactivate_returns(c)
    \/ \E c \in CallIds : deactivate_raises(c)

SpecModules == ModulesInit /\ [][ModulesNext]_vars

\* ModuleManager() with the modules of an installation that has a cycle
CyclesInit ==
    /\ plan = ChainDeps /\ QNew /\ GIdle /\ PIdle
    /\ metadata \in CyclePlans
    /\ _module_loaders \in LoaderPlans
    /\ MNew

SpecCycles == CyclesInit /\ [][ModulesNext]_vars

\* One workflow submitted to the TaskQueueManager, whose execution queue
\* is started before or after the submission and runs the node tasks.
WorkflowInit ==
    /\ plan = ChainDeps
    /\ QNew
    /\ GInit
    /\ topology_sorter = "kahn"
    /\ node_functions = NodeTypes
    /\ rollback_functions = {}
    /\ MIdle
    /\ PIdle

WorkflowNext ==
    \/ add_workflow
    \/ start
    \/ \E w \in WorkerIds : worker_pop(w)
    \/ \E w \in WorkerIds : task_returns(w)
    \/ \E w \in WorkerIds : task_raises(w)
    \/ \E w \in WorkerIds : task_completed(w)
    \/ \E w \in WorkerIds : task_failed(w)

SpecWorkflow == WorkflowInit /\ [][WorkflowNext]_vars

\* The node registry under registrations, removals and validations.
RegistryNext ==
    \/ register_node
    \/ remove_node
    \/ clear_all_nodes
    \/ validate

RegistryInit == plan = ChainDeps /\ QNew /\ GIdle /\ MIdle /\ PIdle

SpecRegistry == RegistryInit /\ [][RegistryNext]_vars

\* The plugin index under fetches, the expiry of the cache, changes of the
\* custom and disabled repository lists, and lookups by node id.
IndexNext ==
    \/ fetch_and_cache_index
    \/ tick
    \/ add_custom_repository
    \/ remove_custom_repository
    \/ disable_repository
    \/ enable_repository
    \/ call_find_plugin_by_node_id

SpecIndex == RegistryInit /\ [][IndexNext]_vars

\* The plugins of one installation: plugins are installed, loaded and
\* uninstalled.
PluginsNext ==
    \/ install_plugin
    \/ load_plugin
    \/ uninstall_plugin

SpecPlugins == RegistryInit /\ [][PluginsNext]_vars

\* The remediation of a workflow: the index is fetched, and the plugins
\* of the missing nodes of a workflow are installed in one call.
RemediationNext ==
    \/ fetch_and_cache_index
    \/ install_missing_nodes

SpecRemediation == RegistryInit /\ [][RemediationNext]_vars

\* The parser on the workflow documents
ParserNext == parse_graph

ParserGraphInit ==
    /\ plan = ChainDeps /\ QNew /\ GIdle /\ MIdle
    /\ _nodes = {}
    /\ _custom_repositories = <<>>
    /\ _disabled_repositories = {}
    /\ _index_cache = <<>>
    /\ _reverse_index = <<>>
    /\ _index_last_updated = 0
    /\ clock = _index_cache_duration
    /\ _loaded_plugins = <<>>
    /\ plugin_modules = <<>>
    /\ plugin_loaders = {}
    /\ disk = {}
    /\ KIdle
    /\ ParserInit

SpecParser == ParserGraphInit /\ [][ParserNext]_vars

\* The model cache manager called from NumThreads threads.
ModelCacheNext ==
    \/ \E t \in ThreadIds : call_get_model(t)
    \/ \E t \in ThreadIds : call_add_model(t)
    \/ \E t \in ThreadIds : call_remove_model(t)
    \/ \E t \in ThreadIds : call_clear_cache(t)
    \/ \E t \in ThreadIds : acquire(t)
    \/ \E t \in ThreadIds : run(t)

SpecModelCache == RegistryInit /\ [][ModelCacheNext]_vars

\* A DataStore under set, get, delete, exists and clear.
DataStoreNext ==
    \/ datastore_get
    \/ datastore_set
    \/ datastore_delete
    \/ datastore_exists
    \/ datastore_clear

DataStoreGraphInit ==
    /\ plan = ChainDeps /\ QNew /\ GIdle /\ MIdle
    /\ PluginsIdle
    /\ CIdle
    /\ DataStoreInit

SpecDataStore == DataStoreGraphInit /\ [][DataStoreNext]_vars

\* =================================================================
\* Properties of the execution queue
\* =================================================================
\* the status and the dependencies of the Task the map holds under id t
Status(t) == objects[tasks[t]].status
Dependencies(t) == objects[tasks[t]].dependencies

\* the workers suspended in execute_task on a Task with id t at one of the
\* given awaits
At(t, pcs) ==
    {w \in DOMAIN workers :
        workers[w].pc \in pcs /\ objects[workers[w].task].task_id = t}

\* the tasks t depends on, directly or through other tasks
RECURSIVE Ancestors(_)
Ancestors(t) ==
    LET direct == SeqToSet(plan[t])
    IN direct \cup UNION {Ancestors(d) : d \in direct}

\* C1: in every state reached by add_task, start, the workers and
\* _check_dependencies, no task of the map is RUNNING while one of its
\* dependencies is missing, PENDING or RUNNING.
C1_RunningHasDepsDone ==
    \A t \in DOMAIN tasks :
        Status(t) = RUNNING =>
            \A d \in SeqToSet(Dependencies(t)) :
                d \in DOMAIN tasks /\ Status(d) \notin {PENDING, RUNNING}

\* C2: a task is RUNNING only when every dependency has published its
\* outputs: the dependency is COMPLETED and its on_task_complete callback
\* has returned.
C2_StartsAfterPublished ==
    \A t \in DOMAIN tasks :
        Status(t) = RUNNING =>
            \A d \in SeqToSet(Dependencies(t)) :
                /\ d \in DOMAIN tasks
                /\ Status(d) = COMPLETED
                /\ At(d, {"on_task_complete"}) = {}

\* C3: once a task has failed (its on_task_fail was emitted), no task that
\* depends on it, directly or transitively, is started any more.
C3_DependentsOfFailedNeverRun ==
    [][\A t \in TaskIds :
          (\E a \in Ancestors(t) : failed_cb[a] > 0) => started'[t] = started[t]]_vars

\* the queue was started on a task set closed under dependencies and has
\* nothing left to do: the heap is empty and every worker idles
Quiescent ==
    /\ is_running
    /\ priority_queue = <<>>
    /\ \A w \in DOMAIN workers : workers[w].pc = "idle"
    /\ \A t \in DOMAIN tasks : SeqToSet(Dependencies(t)) \subseteq DOMAIN tasks

\* C4: when the started queue has nothing left to do, the all-done event is
\* set, so that wait_until_complete() has resolved.
C4_WaitResolves == Quiescent => all_tasks_completed

\* C5: per task, on_task_start is emitted at most once, and the starts equal
\* the terminal callbacks (complete or fail) plus the executions still in
\* progress: no terminal callback without a start, never two of them, and
\* exactly one as soon as the node function has ended.
C5_CallbacksSerialized ==
    \A t \in TaskIds :
        /\ started[t] <= 1
        /\ completed_cb[t] + failed_cb[t] <= 1
        /\ started[t] = completed_cb[t] + failed_cb[t]
                          + Cardinality(At(t, {"execute"}))

\* C6: the status of a Task only moves PENDING -> RUNNING -> COMPLETED or
\* FAILED: a COMPLETED or FAILED Task keeps its status and a RUNNING Task
\* does not return to PENDING.
C6_StatusMonotonic ==
    [][\A o \in DOMAIN objects :
          /\ objects[o].status \in {COMPLETED, FAILED}
                => objects'[o].status = objects[o].status
          /\ objects[o].status = RUNNING => objects'[o].status # PENDING]_vars

\* C11: whenever a worker starts a task, no entry of the heap holds a
\* PENDING task whose own priority (Task.priority, default 50) is
\* numerically lower than the priority of the task that is started.
C11_DispatchByPriority ==
    [][started' # started =>
          LET o == Head(priority_queue)[2]
          IN \A i \in 2..Len(priority_queue) :
                objects[priority_queue[i][2]].status = PENDING
                    => objects[o].priority <= objects[priority_queue[i][2]].priority]_vars

\* C10: after stop() has returned (and before a later start) no task is
\* left RUNNING: every task that was in flight reached COMPLETED or FAILED.
C10_InFlightTasksFinish ==
    (stops > 0 /\ ~is_running) =>
        \A o \in DOMAIN objects : objects[o].status # RUNNING

\* C12: add_task for a task id already in the map leaves the task map, the
\* forward dependency graph and the ready heap as they were.
C12_AddTaskIdempotent ==
    [][readds' # readds =>
          /\ tasks' = tasks
          /\ dependency_graph' = dependency_graph
          /\ priority_queue' = priority_queue]_vars

\* =================================================================
\* Properties of execute_graph and add_workflow
\* =================================================================
\* the nodes reached from the nodes of S along one edge
Successors(g, S) == {e[2] : e \in {x \in SeqToSet(g.edges) : x[1] \in S}}

RECURSIVE ReachedWithin(_, _, _)
ReachedWithin(g, S, k) ==
    IF k = 0 THEN S ELSE ReachedWithin(g, S \cup Successors(g, S), k - 1)

\* some node is reached from itself along one edge or more
HasCycle(g) ==
    \E n \in SeqToSet(g.nodes) :
        n \in ReachedWithin(g, Successors(g, {n}), Len(g.nodes))

HasRollback(n) == TypeOf(n) \in rollback_functions

\* C7: when execute_graph has raised after a node function failed, the
\* rollback functions were called for exactly the nodes that had completed
\* and whose type has one, each once, in the reverse of their completion
\* order; the failed node and the nodes never started were not rolled back.
C7_RollbackReverseCompletion ==
    (api = "execute_graph" /\ gpc = "raised" /\ error.kind = "executor") =>
        /\ rolled_back = Reverse(SelectSeq(node_completed, HasRollback))
        /\ Cardinality(SeqToSet(rolled_back)) = Len(rolled_back)
        /\ error.node \notin SeqToSet(rolled_back)
        /\ SeqToSet(rolled_back) \subseteq SeqToSet(node_started)

\* the chain 1 -> 2 -> 3 with node 3 failing: rollback of 2, then of 1
C7_Witness ==
    /\ graph = [nodes |-> <<1, 2, 3>>, edges |-> <<<<1, 2>>, <<2, 3>>>>]
    /\ gpc = "raised"
    /\ error = [kind |-> "executor", node |-> 3]
    /\ rolled_back = <<2, 1>>

\* C8: when a rollback function has raised, the cascade still called the
\* rollback of every completed node that has one, and execute_graph raised
\* the failure of the node it was executing, not the rollback's error.
C8_RollbackErrorsDoNotAbort ==
    (api = "execute_graph" /\ gpc = "raised" /\ rollback_failed # {}) =>
        /\ SeqToSet(rolled_back) = {n \in SeqToSet(node_completed) : HasRollback(n)}
        /\ error.kind \in {"executor", "missing_output", "no_function"}
        /\ error.node = node_started[Len(node_started)]

\* the first rollback of the cascade raised and a later one still ran
C8_Witness ==
    /\ gpc = "raised"
    /\ Len(rolled_back) >= 2
    /\ rolled_back[1] \in rollback_failed
    /\ error.kind = "executor"

Ran(c) == coroutines'[c] # coroutines[c]

\* the frame that awaits the top frame of call c
Caller(c) == coroutines[c][Len(coroutines[c]) - 1]

\* call c is suspended in the activate callable of module q, which
\* activate_module(p) activates as a dependency of p
ActivatingDependency(c, p, q) ==
    /\ Suspended(c, "activate_module", "activate")
    /\ Top(c).id = q
    /\ Len(coroutines[c]) >= 2
    /\ Caller(c).op = "activate_module"
    /\ Caller(c).pc = "dependency"
    /\ Caller(c).id = p

\* C13: when the activate callable of a dependency Q of P raises while
\* activate_module(P) activates it, activate_module(P) returns false, P is
\* left in state Loaded and get_module_api(P) is null.
C13_DependencyFailureKeepsLoaded ==
    [][\A c \in CallIds : \A p, q \in ModuleIds :
          (/\ ActivatingDependency(c, p, q)
           /\ Ran(c)
           /\ Event("raise", q, "activate", "") \in log')
          => /\ Event("return", p, "activate_module", "False") \in log'
             /\ get_module_state(p)' = LOADED
             /\ get_module_api(p)' = None]_vars

\* the edges of the lifecycle state machine
LifecycleEdges ==
    {<<UNLOADED, LOADING>>, <<LOADING, LOADED>>, <<LOADING, FAILED>>,
     <<LOADED, ACTIVATING>>, <<ACTIVATING, ACTIVATED>>, <<ACTIVATING, FAILED>>,
     <<ACTIVATED, LOADED>>, <<FAILED, LOADING>>}

\* C14: every change of the state of a module record made by load_module,
\* activate_module or deactivate_module is an edge of the lifecycle.
C14_LifecycleEdgesOnly ==
    \A e \in log : e.ev = "state" => <<e.arg, e.val>> \in LifecycleEdges

\* C15: get_module_api(id) is non-null only for a module whose record is
\* Activated; it is null for an unknown id and in every other state.
C15_ApiOnlyWhileActivated ==
    \A id \in ModuleIds :
        get_module_api(id) # None
            => id \in DOMAIN _modules /\ get_module_state(id) = ACTIVATED

\* an Activated module answers with its API while another, loaded module
\* does not
C15_Witness ==
    \E id, other \in ModuleIds :
        /\ get_module_api(id) = TheApi
        /\ other \in DOMAIN _modules
        /\ instances[_modules[other]].module # None
        /\ get_module_state(other) # ACTIVATED

\* the declared dependencies of module p
ModuleDependencies(p) == SeqToSet(metadata[p])

\* C16: when the activate callable of P is invoked, and when P becomes
\* Activated, every declared dependency of P is Activated.
C16_DependenciesActivatedFirst ==
    \A e \in log :
        \/ e.ev = "invoke" /\ e.arg = "activate"
        \/ e.ev = "state" /\ e.val = ACTIVATED
        => \A d \in ModuleDependencies(e.id) : get_module_state(d) = ACTIVATED

\* the validation of the dependencies of p ran in this step
Validated(p) == \E v \in {"True", "False"} : Event("validate", p, "", v) \in log'

\* C17: when activate_module(P) validates the dependencies of P while one
\* of them is absent, Loading or Activating, the validation rejects, the
\* call returns false, the activate callable of P is not invoked and P is
\* not Activated.
C17_ValidationRejectsTransient ==
    [][\A p \in ModuleIds :
          (/\ Validated(p)
           /\ \E d \in ModuleDependencies(p) :
                 get_module_state(d) \in {None, LOADING, ACTIVATING})
          => /\ Event("validate", p, "", "False") \in log'
             /\ Event("return", p, "activate_module", "False") \in log'
             /\ Event("invoke", p, "activate", "") \notin log'
             /\ get_module_state(p)' # ACTIVATED]_vars

\* an activation was rejected because a dependency was being loaded
C17_Witness ==
    \E p \in ModuleIds :
        /\ Event("validate", p, "", "False") \in log
        /\ Event("return", p, "activate_module", "False") \in log
        /\ \E d \in ModuleDependencies(p) : d # p /\ get_module_state(d) = LOADING

\* C18: load_module gives up on a module whose loader has failed every
\* time only after 1 + max_retries invocations of the loader.
C18_GivesUpAfterMaxRetries ==
    \A e \in log :
        (/\ e.ev = "giveup"
         /\ e.id \in _module_loaders
         /\ instances[_modules[e.id]].module = None)
        => loader_calls[_modules[e.id]] = 1 + _max_retries

\* C19: a load_module call that waited for a load in flight returns None
\* only if the loader of that load did not return the module.
C19_WaiterGetsLoadedModule ==
    [][\A c \in CallIds :
          (/\ Suspended(c, "load_module", "wait")
           /\ Ran(c)
           /\ Event("return", Top(c).id, "load_module", None) \in log')
          => ~Top(c).loaded]_vars

\* call c is suspended in the deactivate callable and is resumed
Deactivating(c) == Suspended(c, "deactivate_module", "deactivate") /\ Ran(c)

\* the records other than number i are unchanged
OthersUnchanged(i) ==
    /\ _modules' = _modules
    /\ Len(instances') = Len(instances)
    /\ \A j \in 1..Len(instances) : j # i => instances'[j] = instances[j]

\* C20: deactivate_module calls the deactivate callable of an Activated
\* module only; when the callable returns the record is Loaded, true is
\* returned and no other record changes; when it raises no record changes
\* and false is returned; a call on another module changes nothing.
C20_DeactivateFrame ==
    [][/\ \A c \in CallIds : \A id \in ModuleIds :
             (Deactivating(c) /\ Top(c).id = id)
             => IF Event("raise", id, "deactivate", "") \in log'
                  THEN /\ instances' = instances
                       /\ _modules' = _modules
                       /\ Event("return", id, "deactivate_module", "False") \in log'
                  ELSE /\ get_module_state(id)' = LOADED
                       /\ OthersUnchanged(Top(c).inst)
                       /\ Event("return", id, "deactivate_module", "True") \in log'
       /\ \A id \in ModuleIds :
             Event("invoke", id, "deactivate", "") \in log'
             => /\ get_module_state(id) = ACTIVATED
                /\ instances' = instances
                /\ _modules' = _modules
       /\ \A id \in ModuleIds :
             (/\ \E v \in {"True", "False"} :
                    Event("return", id, "deactivate_module", v) \in log'
              /\ \A c \in CallIds : ~Deactivating(c))
             => /\ get_module_state(id) # ACTIVATED
                /\ Event("return", id, "deactivate_module", "True") \in log'
                /\ instances' = instances
                /\ _modules' = _modules]_vars

\* a module was deactivated while a module that depends on it is Activated
C20_Witness ==
    \E p, q \in ModuleIds :
        /\ q \in ModuleDependencies(p)
        /\ Event("state", q, ACTIVATED, LOADED) \in log
        /\ Event("return", q, "deactivate_module", "True") \in log
        /\ get_module_state(q) = LOADED
        /\ get_module_state(p) = ACTIVATED


\* C22: once a node task of the workflow has failed, the workflow record
\* of the TaskQueueManager has status 'failed' and holds the error of a
\* failed task, and no later event of the queue changes that status.
C22_FailedIsFinal ==
    [][\A i \in DOMAIN tqm_tasks :
          /\ (\E w \in WorkerIds : task_raises(w)) =>
                 /\ tqm_tasks'[i].status = "failed"
                 /\ tqm_tasks'[i].error \in tqm_tasks[i].node_tasks
          /\ tqm_tasks[i].status = "failed" => tqm_tasks'[i].status = "failed"]_vars

\* =================================================================
\* Properties of the node registry and of the plugin manager
\* =================================================================
\* the "type" values of the nodes of a workflow
TypesOf(workflow) == {workflow.nodes[i].type : i \in DOMAIN workflow.nodes}

\* C21: a validation returns, without duplicates, exactly the type names
\* of the workflow's nodes that the registry does not hold, so that the
\* result is empty only when every node's type is registered and an empty
\* registry rejects every workflow that has a node.
C21_MissingTypesReported ==
    reply_op = "validate" =>
        /\ Cardinality(SeqToSet(reply_ret)) = Len(reply_ret)
        /\ SeqToSet(reply_ret) = TypesOf(reply_arg) \ _nodes
        /\ (_nodes = {} /\ reply_arg.nodes # <<>> => reply_ret # <<>>)
\* C23: a call of fetch_and_cache_index that returns failure leaves the
\* index cache, the reverse index and the time of the last update as they
\* were, so that every lookup by node id answers as before the call.
C23_FailedFetchKeepsCache ==
    [][reply_op' = "fetch_and_cache_index" /\ reply_ret' = FALSE =>
          /\ UNCHANGED <<_index_cache, _reverse_index, _index_last_updated>>
          /\ \A node_id \in NodeNames :
                 find_plugin_by_node_id(node_id)' = find_plugin_by_node_id(node_id)]_vars

\* the git urls the reverse index names
ReverseUrls == {_reverse_index[n] : n \in DOMAIN _reverse_index}

\* C24: when fetch_and_cache_index has returned success, no git url of
\* the disable list is a key of the index cache or a value of the reverse
\* index.
C24_IndexFilteredByDisableList ==
    reply_op = "fetch_and_cache_index" /\ reply_ret = TRUE =>
        \A repo_url \in _disabled_repositories :
            repo_url \notin DOMAIN _index_cache /\ repo_url \notin ReverseUrls
\* the plugin of a git url has a directory on disk
Present(git_url) == \E path \in disk : path[2] = plugin_name(git_url)

\* C25: install_plugin for a plugin that is on disk returns success and
\* changes neither the directories nor the module records, and
\* uninstall_plugin for a plugin that is not loaded returns failure and
\* changes nothing.
C25_NoOpInstallAndUninstall ==
    [][/\ reply_op' = "install_plugin" /\ Present(reply_arg') =>
            /\ reply_ret' = TRUE
            /\ UNCHANGED <<disk, _loaded_plugins, plugin_modules, plugin_loaders>>
       /\ reply_op' = "uninstall_plugin" /\ reply_arg' \notin DOMAIN _loaded_plugins =>
            /\ reply_ret' = FALSE
            /\ UNCHANGED <<_nodes, disk, _loaded_plugins, plugin_modules,
                           plugin_loaders>>]_vars

\* C26: when install_missing_nodes has found a plugin for every missing
\* node type of the workflow and every install has succeeded, a validation
\* of the same workflow returns no missing node.
C26_RemediationClosesGap ==
    /\ reply_op = "install_missing_nodes"
    /\ reply_ret.status = "success"
    /\ reply_ret.missing_nodes # <<>>
    /\ Len(reply_ret.results) = Len(reply_ret.missing_nodes)
    /\ \A i \in DOMAIN reply_ret.results : reply_ret.results[i].success
    => validate_workflow(_nodes, reply_arg) = <<>>
\* the node that the output next_path of condition node c does not name
not_taken(c) ==
    LET taken == condition_node(conditions[c].condition, conditions[c].true_path,
                                conditions[c].false_path).next_path
    IN IF taken = conditions[c].true_path THEN conditions[c].false_path
       ELSE conditions[c].true_path

\* C27: once a condition node has run, the node function of the node on
\* the path it did not nominate is never called, and when execute_graph
\* returns that node has an entry in results.
C27_NonTakenBranchSkipped ==
    \A c \in DOMAIN conditions :
        c \in results =>
            /\ not_taken(c) \notin SeqToSet(executor_calls)
            /\ gpc = "returned" => not_taken(c) \in results

\* C28: executing a graph without nodes, by execute_graph or by
\* execute_graph_async, raises no error, leaves results empty and calls no
\* start callback, node function or rollback function.
C28_EmptyGraphSucceeds ==
    graph.nodes = <<>> /\ api \in {"execute_graph", "execute_graph_async"} =>
        /\ gpc \in {"loop", "returned"}
        /\ error = NoError
        /\ results = {}
        /\ node_started = <<>>
        /\ executor_calls = <<>>
        /\ rolled_back = <<>>

\* ---------------------------------------------------------------------
\* Properties of the sorters and of execute_graph, continued
\* ---------------------------------------------------------------------
\* the place of node n in an order that lists it
Position(order, n) == CHOOSE i \in 1..Len(order) : order[i] = n

\* order lists every node of g once, the source of every edge before its
\* target
IsTopologicalOrder(g, order) ==
    /\ Len(order) = Len(g.nodes)
    /\ SeqToSet(order) = SeqToSet(g.nodes)
    /\ \A i \in 1..Len(g.edges) :
          Position(order, g.edges[i][1]) < Position(order, g.edges[i][2])

C30_UnresolvedReferenceIsFatal ==
    error.kind = "missing_output" =>
        /\ api = "execute_graph"
        /\ error.node \notin SeqToSet(executor_calls)
        /\ error.node \notin results
        /\ gpc \in {"rollback", "raised"}
        /\ gpc = "raised" =>
              rolled_back = SelectSeq(Reverse(executed_nodes), HasRollback)

\* execute_graph has raised the error of an unresolved reference after
\* rolling back two completed nodes
C30_Witness ==
    /\ gpc = "raised"
    /\ error.kind = "missing_output"
    /\ Len(rolled_back) = 2
    /\ error.node \in SeqToSet(node_started)
\* ---------------------------------------------------------------------
\* Properties of the graph parser
\* ---------------------------------------------------------------------
\* C31: every Graph that the parser returns has, for each edge, its source
\* and its target among the ids of its nodes; a document with an edge that
\* names another node makes the parser raise.
C31_EdgesJoinNodes ==
    reply_op = "parse_graph" /\ ~reply_ret.raised =>
        \A i \in DOMAIN reply_ret.graph.edges :
            /\ reply_ret.graph.edges[i][1] \in SeqToSet(reply_ret.graph.nodes)
            /\ reply_ret.graph.edges[i][2] \in SeqToSet(reply_ret.graph.nodes)
\* ---------------------------------------------------------------------
\* Properties of the execution queue, continued
\* ---------------------------------------------------------------------
\* C32: whenever the all-done event is set, so that wait_until_complete()
\* returns, every task registered in the queue is COMPLETED or FAILED.
C32_ReleasedOnlyWhenAllDone ==
    all_tasks_completed =>
        \A t \in DOMAIN tasks : Status(t) \in {COMPLETED, FAILED}


\* C34: the executor of a task is invoked at most once, whatever the
\* number of entries the ready heap holds for the task.
C34_ExecutedAtMostOnce == \A t \in DOMAIN started : started[t] <= 1


\* C35: the counts of get_statistics() are never negative, pending,
\* running, completed and failed add up to total, running is at most
\* max_workers and pending is the number of tasks whose status is PENDING.
C35_StatisticsConsistent ==
    LET s == get_statistics
    IN /\ s.pending >= 0 /\ s.running >= 0 /\ s.completed >= 0 /\ s.failed >= 0
       /\ s.pending + s.running + s.completed + s.failed = s.total
       /\ s.running <= MaxWorkers
       /\ s.pending = Cardinality({t \in DOMAIN tasks : Status(t) = PENDING})

\* =================================================================
\* Properties of the module manager, continued

\* module p reaches module q through at most n declared dependencies
RECURSIVE Reaches(_, _, _)
Reaches(p, q, n) ==
    /\ n > 0
    /\ \E d \in ModuleDependencies(p) : d = q \/ Reaches(d, q, n - 1)

\* the modules that depend on module q
Dependents(q) == {p \in ModuleIds : Reaches(p, q, NumModules)}

\* the modules whose record became Failed in this step
NewlyFailed == {id \in ModuleIds : \E e \in log' : e.ev = "state" /\ e.id = id /\ e.val = FAILED}

\* C33: a failure of a module's life cycle does not leave the manager as
\* an exception: the load_module calls on the module that return in the
\* step return None and the activate_module calls return false, the error
\* is recorded on the module's record, and the state of every module that
\* is neither a failing module nor a dependent of one is unchanged; a
\* load_module call that slept after a failed attempt returns None.
C33_LifecycleErrorsAbsorbed ==
    [][/\ \A id \in NewlyFailed :
             /\ Event("error", id, "", "") \in log'
             /\ Event("return", id, "activate_module", "True") \notin log'
             /\ Event("state", id, LOADING, FAILED) \in log'
                => Event("return", id, "load_module", TheModule) \notin log'
       /\ \A m \in ModuleIds :
             (/\ NewlyFailed # {}
              /\ \A id \in NewlyFailed : m # id /\ m \notin Dependents(id))
             => get_module_state(m)' = get_module_state(m)
       /\ \A id \in ModuleIds :
             Event("raise", id, "activate", "") \in log'
             => /\ Event("error", id, "", "") \in log'
                /\ Event("return", id, "activate_module", "False") \in log'
       /\ \A c \in CallIds :
             (Suspended(c, "load_module", "sleep") /\ Ran(c))
             => Event("return", Top(c).id, "load_module", None) \in log']_vars

\* the activate callable of a module raised while the module it depends
\* on was Activated: the call returned false and the error was recorded
C33_Witness ==
    /\ metadata = DependencyChain
    /\ Event("raise", 1, "activate", "") \in log
    /\ Event("error", 1, "", "") \in log
    /\ Event("return", 1, "activate_module", "False") \in log
    /\ get_module_state(1) = FAILED
    /\ get_module_state(2) = ACTIVATED
\* module id is on a cycle of declared dependencies
OnCycle(id) == Reaches(id, id, NumModules)

\* the frames of the calls in flight
Frames == UNION {SeqToSet(coroutines[c]) : c \in CallIds}

C36_SelfWitness ==
    /\ metadata = SelfDependency
    /\ Event("validate", 1, "", "False") \in log
    /\ Event("return", 1, "activate_module", "False") \in log
    /\ get_module_state(1) = FAILED

\* the calls suspended in the activate callable of module id
InActivate(id) == {c \in CallIds : Suspended(c, "activate_module", "activate") /\ Top(c).id = id}

\* call c is an activate_module(id) call of a caller and its run in this
\* step ends the call
Returns(c, id) ==
    /\ coroutines[c] # <<>>
    /\ coroutines[c][1].op = "activate_module"
    /\ coroutines[c][1].id = id
    /\ coroutines'[c] = <<>>

\* C37: the activate callable of a module is never in flight twice; an
\* activate_module call on an Activated module returns true without
\* invoking the callable; and an activate_module call that ends while the
\* module is Activated returns true.
C37_ConcurrentActivation ==
    [][\A id \in ModuleIds :
          /\ Cardinality(InActivate(id))' <= 1
          /\ \A c \in CallIds :
                (/\ coroutines[c] = <<>>
                 /\ Ran(c)
                 /\ get_module_state(id) = ACTIVATED
                 /\ \E v \in {"True", "False"} :
                       Event("return", id, "activate_module", v) \in log')
                => /\ Event("return", id, "activate_module", "True") \in log'
                   /\ Event("invoke", id, "activate", "") \notin log'
          /\ \A c \in CallIds :
                (Returns(c, id) /\ get_module_state(id)' = ACTIVATED)
                => Event("return", id, "activate_module", "False") \notin log']_vars

\* =================================================================
\* Properties of the repository lists

\* the operations on the custom and the disabled repository lists
RepositoryOps == {"add_custom_repository", "remove_custom_repository", "disable_repository", "enable_repository"}

\* C38: after every operation on the repository lists no url is twice in
\* the custom list, no url is both custom and disabled, and an operation
\* that returns False leaves both lists as they were.
C38_RepositoryListsConsistent ==
    [][reply_op' \in RepositoryOps
       => /\ Cardinality(SeqToSet(_custom_repositories')) = Len(_custom_repositories')
          /\ SeqToSet(_custom_repositories') \cap _disabled_repositories' = {}
          /\ reply_ret' = FALSE
             => /\ _custom_repositories' = _custom_repositories
                /\ _disabled_repositories' = _disabled_repositories]_vars

\* =================================================================
\* Properties of the model cache manager

\* thread t waits in Lock.acquire()
WaitsForLock(t) == threads[t] # <<>> /\ threads[t][Len(threads[t])].pc = "lock"

\* C39: no thread waits for the manager's lock for ever: when a thread
\* waits in acquire(), the lock is free or the thread that took it is not
\* itself waiting for the lock, so that it runs on and releases it.
C39_LockIsReleased ==
    \A t \in ThreadIds :
        WaitsForLock(t) => (_lock = 0 \/ ~WaitsForLock(_lock))

\* =================================================================
\* Properties of the data store

\* the keys of the cache, in its order
CachedKeys == [i \in DOMAIN lru_cache |-> lru_cache[i][1]]

====
